---- MODULE Spec2Model ----
(***************************************************************************)
(* A model of the Deck manipulation engine of cards.py: the Card / Joker   *)
(* value model the engine relies on, the one-level argument flattening,    *)
(* and the Deck operations add, remove, get, index, draw, draw_random,     *)
(* get_random, select, sort_by_rank and sort_by_suit.  Python lists are    *)
(* sequences; Python indexes are kept 0-based and converted at the list    *)
(* primitives.                                                             *)
(***************************************************************************)
EXTENDS Integers, Sequences, FiniteSets, TLC

\* cards: the receiver deck's list; call: the call just made on it;
\* ace_worth_1: Card.__ace_worth_1; other_deck: a second Deck the caller
\* holds; name_order: the order in which this process iterates the sets of
\* suit and rank names
VARIABLES cards, call, ace_worth_1, other_deck, name_order

vars == <<cards, call, ace_worth_1, other_deck, name_order>>

(***************************************************************************)
(* Bounds of the model.                                                    *)
(***************************************************************************)
\* longest receiver deck explored
MaxLen == 3
\* most elements in one flattened argument bundle
MaxArgs == 2
\* most elements (empty collections counted as one) given to the constructor
MaxCtorElts == 3
\* most rank and suit values given to one select
MaxCriteria == 2
\* longest deck sorted
MaxSortLen == 4
\* longest receiver of the calls whose returned deck is used afterwards
MaxAliasLen == 2

(***************************************************************************)
(* Card and Joker values.  A value carries its Python class and the four   *)
(* attributes the constructors set.                                        *)
(***************************************************************************)
Card(rank, suit) ==
    [cls |-> "Card", rank |-> rank, suit |-> suit,
     color |-> suit > 2, face_card |-> rank > 10]

Joker(color) ==
    [cls |-> "Joker", rank |-> 0, suit |-> 0,
     color |-> color, face_card |-> TRUE]

\* Card.__eq__: the four attributes, the class is not compared
CardEq(a, b) ==
    /\ a.rank = b.rank
    /\ a.suit = b.suit
    /\ a.color = b.color
    /\ a.face_card = b.face_card

\* the absent card (Python None in a card position)
NoCard == [cls |-> "None", rank |-> -1, suit |-> -1,
           color |-> FALSE, face_card |-> FALSE]

(***************************************************************************)
(* Python values given to constructors, setters and select: an int, a str,  *)
(* a float, a bool or None.  A str is held as the number of "!" it starts with and the text   *)
(* after them, so that startswith("!") and [1:] are what they are on the   *)
(* string; a float is held in tenths; a bool holds the int it equals.      *)
(***************************************************************************)
IntVal(i) == [k |-> "int", n |-> i, bangs |-> 0, name |-> ""]
StrVal(bangs, name) == [k |-> "str", n |-> 0, bangs |-> bangs, name |-> name]
FloatVal(tenths) == [k |-> "float", n |-> tenths, bangs |-> 0, name |-> ""]
BoolVal(b) == [k |-> "bool", n |-> IF b THEN 1 ELSE 0, bangs |-> 0, name |-> ""]
NoneVal == [k |-> "none", n |-> 0, bangs |-> 0, name |-> ""]

\* Card.__ranks and Card.__suits
RankNames ==
    ("Ace" :> 1) @@ ("2" :> 2) @@ ("3" :> 3) @@ ("4" :> 4) @@ ("5" :> 5)
    @@ ("6" :> 6) @@ ("7" :> 7) @@ ("8" :> 8) @@ ("9" :> 9) @@ ("10" :> 10)
    @@ ("Jack" :> 11) @@ ("Queen" :> 12) @@ ("King" :> 13)
SuitNames ==
    ("Clubs" :> 1) @@ ("Spades" :> 2) @@ ("Diamonds" :> 3) @@ ("Hearts" :> 4)

(***************************************************************************)
(* Card.__init__ and Joker.__init__ on the values given: the card built,   *)
(* or the error raised.                                                    *)
(***************************************************************************)
\* the constructor with face_card = rank > 11
Card_init_face_above_jack(rank, suit) ==
    LET r == IF rank.k = "str" THEN RankNames[rank.name] ELSE rank.n
        s == IF suit.k = "str" THEN SuitNames[suit.name] ELSE suit.n
    IN IF ~(rank.k \in {"int", "str"} /\ suit.k \in {"int", "str"})
       THEN [err |-> "TypeError", card |-> NoCard]
       ELSE IF rank.k = "str" /\ ~(rank.bangs = 0 /\ rank.name \in DOMAIN RankNames)
       THEN [err |-> "ValueError", card |-> NoCard]
       ELSE IF suit.k = "str" /\ ~(suit.bangs = 0 /\ suit.name \in DOMAIN SuitNames)
       THEN [err |-> "ValueError", card |-> NoCard]
       ELSE IF 1 <= r /\ r <= 13 /\ 1 <= s /\ s <= 4
       THEN [err |-> "none",
             card |-> [cls |-> "Card", rank |-> r, suit |-> s,
                       color |-> s > 2, face_card |-> r > 11]]
       ELSE [err |-> "ValueError", card |-> NoCard]

Card_init(rank, suit) ==
    LET r == IF rank.k = "str" THEN RankNames[rank.name] ELSE rank.n
        s == IF suit.k = "str" THEN SuitNames[suit.name] ELSE suit.n
    IN IF ~(rank.k \in {"int", "str"} /\ suit.k \in {"int", "str"})
       THEN [err |-> "TypeError", card |-> NoCard]
       ELSE IF rank.k = "str" /\ ~(rank.bangs = 0 /\ rank.name \in DOMAIN RankNames)
       THEN [err |-> "ValueError", card |-> NoCard]
       ELSE IF suit.k = "str" /\ ~(suit.bangs = 0 /\ suit.name \in DOMAIN SuitNames)
       THEN [err |-> "ValueError", card |-> NoCard]
       ELSE IF 1 <= r /\ r <= 13 /\ 1 <= s /\ s <= 4
       THEN [err |-> "none", card |-> Card(r, s)]
       ELSE [err |-> "ValueError", card |-> NoCard]

\* super().__init__(1, 1) always succeeds; then the color decides
Joker_init(color) ==
    IF color.k = "str"
    THEN IF color.bangs = 0 /\ color.name \in {"Red", "Black"}
         THEN [err |-> "none", card |-> Joker(color.name = "Red")]
         ELSE [err |-> "ValueError", card |-> NoCard]
    ELSE IF color.k = "bool"
    THEN [err |-> "none", card |-> Joker(color.n = 1)]
    ELSE [err |-> "TypeError", card |-> NoCard]

(***************************************************************************)
(* Argument values.  An element is a Card/Joker, an int, a bool, or (inside*)
(* a collection) a nested list or a Deck, which one-level flattening       *)
(* leaves as they are.  A top-level argument is an element, or a list, a   *)
(* tuple or a Deck with its items.                                         *)
(***************************************************************************)
CardElt(c) == [k |-> "card", card |-> c, n |-> 0]
IntElt(i) == [k |-> "int", card |-> NoCard, n |-> i]
BoolElt == [k |-> "bool", card |-> NoCard, n |-> 1]
NestedListElt == [k |-> "list", card |-> NoCard, n |-> 0]
NestedDeckElt == [k |-> "deck", card |-> NoCard, n |-> 0]

EltArg(e) == [k |-> e.k, card |-> e.card, n |-> e.n, items |-> <<>>]
ListArg(items) == [k |-> "list", card |-> NoCard, n |-> 0, items |-> items]
TupleArg(items) == [k |-> "tuple", card |-> NoCard, n |-> 0, items |-> items]
\* a Deck given as an argument: its items are its cards
DeckArg(cs) ==
    [k |-> "deck", card |-> NoCard, n |-> 0,
     items |-> [i \in 1..Len(cs) |-> CardElt(cs[i])]]

\* the element a non-collection argument stands for
ArgElt(a) == [k |-> a.k, card |-> a.card, n |-> a.n]

\* type(x) in [Card, Joker]
IsCardType(e) == e.k = "card"
\* type(x) is int (a bool is not an int here)
IsIntType(e) == e.k = "int"

(***************************************************************************)
(* Python list primitives on sequences of cards.                           *)
(***************************************************************************)
\* list == list: same length, and equal elements position by position
ListEq(a, b) ==
    /\ Len(a) = Len(b)
    /\ \A i \in 1..Len(a) : CardEq(a[i], b[i])

\* c in lst
ListContains(lst, c) == \E i \in 1..Len(lst) : CardEq(lst[i], c)

\* lst.index(c), 0-based, for a card that is in the list
ListIndex(lst, c) ==
    (CHOOSE i \in 1..Len(lst) :
        /\ CardEq(lst[i], c)
        /\ \A j \in 1..(i - 1) : ~CardEq(lst[j], c)) - 1

\* lst.pop(i) for 0 <= i < len(lst): the list left
ListPop(lst, i) ==
    [j \in 1..(Len(lst) - 1) |-> IF j <= i THEN lst[j] ELSE lst[j + 1]]

\* lst.remove(c) for a card that is in the list: the first equal card goes
ListRemove(lst, c) == ListPop(lst, ListIndex(lst, c))

\* a splice that does not count a negative index from the end
SliceInsertNoNegative(lst, index, batch) ==
    LET n == Len(lst)
        r == IF index < 0 THEN 0 ELSE IF index > n THEN n ELSE index
    IN SubSeq(lst, 1, r) \o batch \o SubSeq(lst, r + 1, n)

\* a splice one position too far
SliceInsertAfter(lst, index, batch) ==
    LET n == Len(lst)
        raw == IF index < 0 THEN n + index ELSE index
        r == IF raw < 0 THEN 1 ELSE IF raw >= n THEN n ELSE raw + 1
    IN SubSeq(lst, 1, r) \o batch \o SubSeq(lst, r + 1, n)

\* lst[index:index] = batch, with Python's clamping of the slice bound
SliceInsert(lst, index, batch) ==
    LET n == Len(lst)
        raw == IF index < 0 THEN n + index ELSE index
        r == IF raw < 0 THEN 0 ELSE IF raw > n THEN n ELSE raw
    IN SubSeq(lst, 1, r) \o batch \o SubSeq(lst, r + 1, n)

\* the cards of a flattened list whose elements are all cards
CardsOf(elts) == [i \in 1..Len(elts) |-> elts[i].card]

\* a flattening that splices lists and Decks but not tuples
RECURSIVE flatten_lists_only(_)
flatten_lists_only(collection) ==
    IF collection = <<>> THEN <<>>
    ELSE LET arg == Head(collection)
             part == IF arg.k = "list" THEN arg.items
                     ELSE IF arg.k # "deck" THEN <<ArgElt(arg)>>
                     ELSE arg.items
         IN part \o flatten_lists_only(Tail(collection))

(***************************************************************************)
(* _flatten_nested_collections: a list or tuple argument is spliced in, a  *)
(* Deck argument contributes its cards, anything else is one element.      *)
(***************************************************************************)
RECURSIVE flatten_nested_collections(_)
flatten_nested_collections(collection) ==
    IF collection = <<>> THEN <<>>
    ELSE LET arg == Head(collection)
             part == IF arg.k \in {"list", "tuple"} THEN arg.items
                     ELSE IF arg.k # "deck" THEN <<ArgElt(arg)>>
                     ELSE arg.items
         IN part \o flatten_nested_collections(Tail(collection))

(***************************************************************************)
(* Deck.generate_standard_deck: 4 suits x 13 ranks, then the black and the *)
(* red Joker.  The suits and ranks are enumerated in the iteration order   *)
(* of the name sets; SuitOrder and RankOrder stand for that order.         *)
(***************************************************************************)
SuitOrder == <<"Clubs", "Spades", "Diamonds", "Hearts">>
RankOrder == <<"Ace", "2", "3", "4", "5", "6", "7", "8", "9", "10",
               "Jack", "Queen", "King">>

\* the order as this process iterates the sets
DefaultNameOrder == [suits |-> SuitOrder, ranks |-> RankOrder]

\* the standard deck closed by two black Jokers
standard_deck_two_black(order) ==
    [i \in 1..(Len(order.suits) * Len(order.ranks)) |->
        Card_init(StrVal(0, order.ranks[((i - 1) % Len(order.ranks)) + 1]),
                  StrVal(0, order.suits[((i - 1) \div Len(order.ranks)) + 1])).card]
    \o <<Joker_init(StrVal(0, "Black")).card, Joker_init(StrVal(0, "Black")).card>>

\* for suit in get_suits() for rank in get_ranks(), then the two Jokers
standard_deck_in(order) ==
    [i \in 1..(Len(order.suits) * Len(order.ranks)) |->
        Card_init(StrVal(0, order.ranks[((i - 1) % Len(order.ranks)) + 1]),
                  StrVal(0, order.suits[((i - 1) \div Len(order.ranks)) + 1])).card]
    \o <<Joker_init(StrVal(0, "Black")).card, Joker_init(StrVal(0, "Red")).card>>

generate_standard_deck == standard_deck_in(name_order)

(***************************************************************************)
(* Results of a call: the receiver's cards after it, what it returned and  *)
(* the exception it raised ("none" when it returned).                      *)
(***************************************************************************)
NoRet == [k |-> "none", card |-> NoCard, cards |-> <<>>]
CardRet(c) == [k |-> "card", card |-> c, cards |-> <<>>]
DeckRet(cs) == [k |-> "deck", card |-> NoCard, cards |-> cs]
\* an int handed back, and a tuple of ints
IntRet(i) == [k |-> "int", card |-> NoCard, cards |-> <<>>, n |-> i]
TupleRet(is) == [k |-> "tuple", card |-> NoCard, cards |-> <<>>, ns |-> is]
\* a bool handed back
BoolRet(b) == [k |-> "bool", card |-> NoCard, cards |-> <<>>, b |-> b]

Done(self, ret) == [cards |-> self, ret |-> ret, err |-> "none"]
Raise(self, e) == [cards |-> self, ret |-> NoRet, err |-> e]

(***************************************************************************)
(* Deck.__init__: with arguments, flatten them and accept only Card/Joker  *)
(* elements; with none, the standard deck.                                 *)
(***************************************************************************)
\* a constructor that takes an empty flattened list for no arguments
Deck_standard_when_empty(args) ==
    LET flattened_list == flatten_nested_collections(args)
    IN IF Len(flattened_list) > 0
       THEN IF \E i \in 1..Len(flattened_list) : ~IsCardType(flattened_list[i])
            THEN [err |-> "TypeError", cards |-> <<>>]
            ELSE [err |-> "none", cards |-> CardsOf(flattened_list)]
       ELSE [err |-> "none", cards |-> generate_standard_deck]

Deck(args) ==
    IF Len(args) > 0
    THEN LET flattened_list == flatten_nested_collections(args)
         IN IF \E i \in 1..Len(flattened_list) : ~IsCardType(flattened_list[i])
            THEN [err |-> "TypeError", cards |-> <<>>]
            ELSE [err |-> "none", cards |-> CardsOf(flattened_list)]
    ELSE [err |-> "none", cards |-> generate_standard_deck]

\* a Deck built by a method and handed back: Deck(args) as the return value
NewDeckRet(self, args) ==
    LET d == Deck(args)
    IN IF d.err # "none" THEN Raise(self, d.err) ELSE Done(self, DeckRet(d.cards))

\* a list of Card objects as one list argument
CardListArg(cs) == ListArg([i \in 1..Len(cs) |-> CardElt(cs[i])])

(***************************************************************************)
(* Deck.add                                                                *)
(***************************************************************************)
NoIndex == [k |-> "none", n |-> 0]
IntIndex(i) == [k |-> "int", n |-> i]
BoolIndex == [k |-> "bool", n |-> 1]

\* an add that leaves the range of the index to the slice assignment
add_without_range_check(self, args, index) ==
    IF index.k # "none" /\ index.k # "int"
    THEN Raise(self, "TypeError")
    ELSE IF Len(args) > 0
    THEN LET flat == flatten_nested_collections(args)
         IN IF \E i \in 1..Len(flat) : ~IsCardType(flat[i])
            THEN Raise(self, "TypeError")
            ELSE IF index.k = "none"
                 THEN Done(self \o CardsOf(flat), NoRet)
                 ELSE Done(SliceInsert(self, index.n, CardsOf(flat)), NoRet)
    ELSE Done(self, NoRet)

add(self, args, index) ==
    IF index.k # "none" /\ index.k # "int"
    THEN Raise(self, "TypeError")
    ELSE IF index.k = "int" /\ (index.n < -Len(self) \/ index.n > Len(self))
    THEN Raise(self, "IndexError")
    ELSE IF Len(args) > 0
    THEN LET flat == flatten_nested_collections(args)
         IN IF \E i \in 1..Len(flat) : ~IsCardType(flat[i])
            THEN Raise(self, "TypeError")
            ELSE IF index.k = "none"
                 THEN Done(self \o CardsOf(flat), NoRet)
                 ELSE Done(SliceInsert(self, index.n, CardsOf(flat)), NoRet)
    ELSE Done(self, NoRet)

(***************************************************************************)
(* Deck.remove                                                             *)
(***************************************************************************)
\* i in lst, for a list of ints
IntListContains(lst, i) == \E j \in 1..Len(lst) : lst[j] = i

\* an index check that lets the position one past the end through
remove_index_in_range_inclusive(self, i) == 0 <= i /\ i <= Len(self)

\* 0 <= elt < len(self) for a resolved index
remove_index_in_range(self, i) == 0 <= i /\ i < Len(self)

\* the partition loop: resolved, deduplicated indexes and the cards, or the
\* exception of the first element that is out of range, absent or of no
\* accepted type
RECURSIVE remove_partition(_, _, _, _)
remove_partition(self, elts, indexes_to_remove, cards_to_remove) ==
    IF elts = <<>>
    THEN [err |-> "none", indexes |-> indexes_to_remove, cards |-> cards_to_remove]
    ELSE LET elt == Head(elts)
         IN IF IsIntType(elt)
            THEN LET i == IF elt.n < 0 THEN Len(self) + elt.n ELSE elt.n
                 IN IF remove_index_in_range(self, i)
                    THEN remove_partition(self, Tail(elts),
                            IF IntListContains(indexes_to_remove, i)
                            THEN indexes_to_remove
                            ELSE Append(indexes_to_remove, i),
                            cards_to_remove)
                    ELSE [err |-> "IndexError", indexes |-> <<>>, cards |-> <<>>]
            ELSE IF IsCardType(elt)
            THEN IF ListContains(self, elt.card)
                 THEN remove_partition(self, Tail(elts), indexes_to_remove,
                                       Append(cards_to_remove, elt.card))
                 ELSE [err |-> "ValueError", indexes |-> <<>>, cards |-> <<>>]
            ELSE [err |-> "TypeError", indexes |-> <<>>, cards |-> <<>>]

\* the largest int of a non-empty list
ListMax(lst) == CHOOSE m \in {lst[j] : j \in 1..Len(lst)} :
                    \A j \in 1..Len(lst) : lst[j] <= m

\* lst without the first occurrence of the int m
RECURSIVE IntListRemove(_, _)
IntListRemove(lst, m) ==
    IF lst = <<>> THEN <<>>
    ELSE IF Head(lst) = m THEN Tail(lst)
    ELSE <<Head(lst)>> \o IntListRemove(Tail(lst), m)

\* a sort that leaves out reverse=True
RECURSIVE sort_ascending(_)
sort_ascending(lst) ==
    IF lst = <<>> THEN <<>>
    ELSE LET m == ListMax(lst)
         IN sort_ascending(IntListRemove(lst, m)) \o <<m>>

\* indexes_to_remove.sort(reverse=True)
RECURSIVE sort_reverse(_)
sort_reverse(lst) ==
    IF lst = <<>> THEN <<>>
    ELSE LET m == ListMax(lst)
         IN <<m>> \o sort_reverse(IntListRemove(lst, m))

\* the loop popping each index that is still in range
RECURSIVE pop_indexes(_, _)
pop_indexes(lst, indexes) ==
    IF indexes = <<>> THEN lst
    ELSE LET i == Head(indexes)
         IN pop_indexes(IF 0 <= i /\ i < Len(lst) THEN ListPop(lst, i) ELSE lst,
                        Tail(indexes))

\* a loop that takes the last card when the card asked for is gone
RECURSIVE remove_cards_pop_when_gone(_, _)
remove_cards_pop_when_gone(lst, cs) ==
    IF cs = <<>> THEN lst
    ELSE LET c == Head(cs)
         IN remove_cards_pop_when_gone(
                IF ListContains(lst, c) THEN ListRemove(lst, c)
                ELSE IF lst # <<>> THEN ListPop(lst, Len(lst) - 1)
                ELSE lst,
                Tail(cs))

\* the loop removing each card that is still in the list
RECURSIVE remove_cards(_, _)
remove_cards(lst, cs) ==
    IF cs = <<>> THEN lst
    ELSE LET c == Head(cs)
         IN remove_cards(IF ListContains(lst, c) THEN ListRemove(lst, c) ELSE lst,
                         Tail(cs))

remove(self, args) ==
    IF Len(args) > 0
    THEN LET p == remove_partition(self, flatten_nested_collections(args), <<>>, <<>>)
         IN IF p.err # "none"
            THEN Raise(self, p.err)
            ELSE Done(remove_cards(pop_indexes(self, sort_reverse(p.indexes)), p.cards),
                      NoRet)
    ELSE Done(self, NoRet)

(***************************************************************************)
(* Deck.get                                                                *)
(***************************************************************************)
\* a retrieval loop that keeps a card only the first time it is asked for
RECURSIVE get_loop_unique(_, _, _)
get_loop_unique(self, items, retrieved_cards) ==
    IF items = <<>>
    THEN [err |-> "none", cards |-> retrieved_cards]
    ELSE LET item == Head(items)
         IN IF IsIntType(item)
            THEN LET i == IF item.n < 0 THEN Len(self) + item.n ELSE item.n
                 IN IF 0 <= i /\ i < Len(self)
                    THEN get_loop_unique(self, Tail(items),
                            IF ListContains(retrieved_cards, self[i + 1])
                            THEN retrieved_cards
                            ELSE Append(retrieved_cards, self[i + 1]))
                    ELSE [err |-> "IndexError", cards |-> <<>>]
            ELSE [err |-> "TypeError", cards |-> <<>>]

\* a retrieval loop that takes a bool for the int it equals (isinstance)
RECURSIVE get_loop_isinstance(_, _, _)
get_loop_isinstance(self, items, retrieved_cards) ==
    IF items = <<>>
    THEN [err |-> "none", cards |-> retrieved_cards]
    ELSE LET item == Head(items)
         IN IF item.k \in {"int", "bool"}
            THEN LET i == IF item.n < 0 THEN Len(self) + item.n ELSE item.n
                 IN IF 0 <= i /\ i < Len(self)
                    THEN get_loop_isinstance(self, Tail(items),
                                             Append(retrieved_cards, self[i + 1]))
                    ELSE [err |-> "IndexError", cards |-> <<>>]
            ELSE [err |-> "TypeError", cards |-> <<>>]

RECURSIVE get_loop(_, _, _)
get_loop(self, items, retrieved_cards) ==
    IF items = <<>>
    THEN [err |-> "none", cards |-> retrieved_cards]
    ELSE LET item == Head(items)
         IN IF IsIntType(item)
            THEN LET i == IF item.n < 0 THEN Len(self) + item.n ELSE item.n
                 IN IF 0 <= i /\ i < Len(self)
                    THEN get_loop(self, Tail(items), Append(retrieved_cards, self[i + 1]))
                    ELSE [err |-> "IndexError", cards |-> <<>>]
            ELSE [err |-> "TypeError", cards |-> <<>>]

get(self, indexes) ==
    IF Len(indexes) = 0
    THEN IF Len(self) = 0
         THEN Raise(self, "IndexError")
         ELSE Done(self, CardRet(self[Len(self)]))
    ELSE LET r == get_loop(self, flatten_nested_collections(indexes), <<>>)
         IN IF r.err # "none"
            THEN Raise(self, r.err)
            ELSE IF Len(r.cards) = 1
                 THEN Done(self, CardRet(r.cards[1]))
                 ELSE NewDeckRet(self, <<CardListArg(r.cards)>>)

(***************************************************************************)
(* Deck.index                                                              *)
(***************************************************************************)
\* lst.index(c) counted from 1
ListIndexOneBased(lst, c) ==
    CHOOSE i \in 1..Len(lst) :
        /\ CardEq(lst[i], c)
        /\ \A j \in 1..(i - 1) : ~CardEq(lst[j], c)

\* an index loop that reports positions counted from 1
RECURSIVE index_loop_one_based(_, _, _)
index_loop_one_based(self, items, card_indexes) ==
    IF items = <<>>
    THEN [err |-> "none", indexes |-> card_indexes]
    ELSE LET card == Head(items)
         IN IF ~IsCardType(card)
            THEN [err |-> "TypeError", indexes |-> <<>>]
            ELSE IF ListContains(self, card.card)
            THEN index_loop_one_based(self, Tail(items),
                    Append(card_indexes, ListIndexOneBased(self, card.card)))
            ELSE [err |-> "ValueError", indexes |-> <<>>]

\* an index loop that reports the last occurrence
RECURSIVE index_loop_last(_, _, _)
index_loop_last(self, items, card_indexes) ==
    IF items = <<>>
    THEN [err |-> "none", indexes |-> card_indexes]
    ELSE LET card == Head(items)
         IN IF ~IsCardType(card)
            THEN [err |-> "TypeError", indexes |-> <<>>]
            ELSE IF ListContains(self, card.card)
            THEN index_loop_last(self, Tail(items),
                    Append(card_indexes,
                           (CHOOSE i \in 1..Len(self) :
                               /\ CardEq(self[i], card.card)
                               /\ \A j \in (i + 1)..Len(self) :
                                     ~CardEq(self[j], card.card)) - 1))
            ELSE [err |-> "ValueError", indexes |-> <<>>]

RECURSIVE index_loop(_, _, _)
index_loop(self, items, card_indexes) ==
    IF items = <<>>
    THEN [err |-> "none", indexes |-> card_indexes]
    ELSE LET card == Head(items)
         IN IF ~IsCardType(card)
            THEN [err |-> "TypeError", indexes |-> <<>>]
            ELSE IF ListContains(self, card.card)
            THEN index_loop(self, Tail(items),
                            Append(card_indexes, ListIndex(self, card.card)))
            ELSE [err |-> "ValueError", indexes |-> <<>>]

index(self, cs) ==
    IF Len(cs) = 0
    THEN Done(self, NoRet)
    ELSE LET r == index_loop(self, flatten_nested_collections(cs), <<>>)
         IN IF r.err # "none"
            THEN Raise(self, r.err)
            ELSE IF Len(r.indexes) = 1
                 THEN Done(self, IntRet(r.indexes[1]))
                 ELSE Done(self, TupleRet(r.indexes))

(***************************************************************************)
(* Deck.draw: get, then remove with the same arguments; the result is      *)
(* handed back as it is only when its type is Card, and wrapped in         *)
(* Deck(...) otherwise.                                                    *)
(***************************************************************************)
\* a returned value passed on as one argument
RetArg(ret) ==
    IF ret.k = "card" THEN EltArg(CardElt(ret.card)) ELSE DeckArg(ret.cards)

draw(self, indexes) ==
    LET g == get(self, indexes)
    IN IF g.err # "none"
       THEN g
       ELSE LET r == remove(self, indexes)
            IN IF r.err # "none"
               THEN r
               ELSE IF g.ret.k = "card" /\ g.ret.card.cls = "Card"
                    THEN Done(r.cards, g.ret)
                    ELSE NewDeckRet(r.cards, <<RetArg(g.ret)>>)

(***************************************************************************)
(* Deck.draw_random: picks[k] is the value randint returns in the k-th     *)
(* iteration.                                                              *)
(***************************************************************************)
\* a returned value as an element of a list
RetElt(ret) == IF ret.k = "card" THEN CardElt(ret.card) ELSE NestedDeckElt

RECURSIVE draw_random_loop(_, _, _, _)
draw_random_loop(self, amount, picks, drawn) ==
    IF amount > 0 /\ Len(self) > 0
    THEN LET d == draw(self, <<EltArg(IntElt(Head(picks)))>>)
         IN IF d.err # "none"
            THEN [err |-> d.err, cards |-> d.cards, drawn |-> drawn]
            ELSE draw_random_loop(d.cards, amount - 1, Tail(picks),
                                  Append(drawn, d.ret))
    ELSE [err |-> "none", cards |-> self, drawn |-> drawn]

draw_random(self, amount, picks) ==
    LET l == draw_random_loop(self, amount, picks, <<>>)
    IN IF l.err # "none"
       THEN Raise(l.cards, l.err)
       ELSE IF Len(l.drawn) = 1
            THEN Done(l.cards, l.drawn[1])
            ELSE NewDeckRet(l.cards,
                    <<ListArg([i \in 1..Len(l.drawn) |-> RetElt(l.drawn[i])])>>)

(***************************************************************************)
(* Deck.get_random: picks[k] is the position choice picks in the pool in   *)
(* the k-th iteration.                                                     *)
(***************************************************************************)
\* a sampling loop that leaves the picked card in the pool
RECURSIVE get_random_loop_with_replacement(_, _, _, _)
get_random_loop_with_replacement(possible_cards, amount, picks, chosen) ==
    IF amount > 0 /\ Len(chosen) < Len(possible_cards)
    THEN LET card == possible_cards[Head(picks) + 1]
         IN get_random_loop_with_replacement(possible_cards, amount - 1,
                                             Tail(picks), Append(chosen, card))
    ELSE chosen

RECURSIVE get_random_loop(_, _, _, _)
get_random_loop(possible_cards, amount, picks, chosen) ==
    IF amount > 0 /\ Len(possible_cards) > 0
    THEN LET card == possible_cards[Head(picks) + 1]
         IN get_random_loop(ListRemove(possible_cards, card), amount - 1,
                            Tail(picks), Append(chosen, card))
    ELSE chosen

get_random(self, amount, picks) ==
    LET chosen == get_random_loop(self, amount, picks, <<>>)
    IN IF Len(chosen) = 1
       THEN Done(self, CardRet(chosen[1]))
       ELSE NewDeckRet(self, <<CardListArg(chosen)>>)


\* a rank or suit criterion: None, one value, or a list or tuple of values
NoCriterion == [k |-> "none", items |-> <<>>]
ScalarCriterion(v) == [k |-> "scalar", items |-> <<v>>]
ListCriterion(items) == [k |-> "list", items |-> items]
TupleCriterion(items) == [k |-> "tuple", items |-> items]


\* Card.same_rank / Card.same_suit, by the family of the criterion
same(family, card, other) ==
    IF family = "rank" THEN card.rank = other.rank ELSE card.suit = other.suit

\* card.has_color(c) with Red for "Black"
has_color_black(card, color) ==
    card.color = (IF color.k = "str" THEN color.name = "Black" ELSE color.n = 1)

\* Card.has_color: a str stands for the bool color == "Red"
has_color(card, color) ==
    card.color = (IF color.k = "str"
                  THEN color.bangs = 0 /\ color.name = "Red"
                  ELSE color.n = 1)

(***************************************************************************)
(* Deck.select                                                             *)
(***************************************************************************)
\* separate_exclusions: from the last value to the first, a str starting
\* with "!" (the "!" taken off) or a negative int (negated) moves to excl
RECURSIVE separate_exclusions(_, _, _, _)
separate_exclusions(criteria, ind, incl, excl) ==
    IF ind < 1
    THEN [incl |-> incl, excl |-> excl]
    ELSE LET v == criteria[ind]
         IN IF v.k = "str" /\ v.bangs > 0
            THEN separate_exclusions(criteria, ind - 1, incl,
                                     Append(excl, StrVal(v.bangs - 1, v.name)))
            ELSE IF v.k = "int" /\ v.n < 0
            THEN separate_exclusions(criteria, ind - 1, incl,
                                     Append(excl, IntVal(-v.n)))
            ELSE separate_exclusions(criteria, ind - 1, <<v>> \o incl, excl)

\* the two get_test_card closures: the card a value stands for, or the error
get_test_card(family, v) ==
    LET names == IF family = "rank" THEN RankNames ELSE SuitNames
        top == IF family = "rank" THEN 13 ELSE 4
        is_name == v.k = "str" /\ v.bangs = 0 /\ v.name \in DOMAIN names
    IN IF is_name
       THEN [err |-> "none",
             card |-> IF family = "rank" THEN Card(names[v.name], 1)
                      ELSE Card(1, names[v.name])]
       ELSE IF v.k = "int" /\ 1 <= v.n /\ v.n <= top
       THEN [err |-> "none",
             card |-> IF family = "rank" THEN Card(v.n, 1) ELSE Card(1, v.n)]
       ELSE IF \/ (family = "rank" /\ v.k = "str" /\ v.bangs = 0 /\ v.name = "Joker")
               \/ (v.k \in {"int", "float", "bool"} /\ v.n = 0)
       THEN [err |-> "none", card |-> Joker(FALSE)]
       ELSE IF v.k \notin {"int", "str"}
       THEN [err |-> "TypeError", card |-> NoCard]
       ELSE [err |-> "ValueError", card |-> NoCard]

\* for r in exclusions: keep the cards that do not match; get_test_card is
\* called once per card looked at, so not at all on an empty list
RECURSIVE apply_exclusions(_, _, _)
apply_exclusions(family, selected_cards, exclusions) ==
    IF exclusions = <<>>
    THEN [err |-> "none", cards |-> selected_cards]
    ELSE IF selected_cards = <<>>
    THEN apply_exclusions(family, selected_cards, Tail(exclusions))
    ELSE LET t == get_test_card(family, Head(exclusions))
         IN IF t.err # "none"
            THEN [err |-> t.err, cards |-> <<>>]
            ELSE apply_exclusions(family,
                    SelectSeq(selected_cards, LAMBDA c : ~same(family, c, t.card)),
                    Tail(exclusions))

\* an inclusion loop that takes a card once however many values it matches
RECURSIVE apply_inclusions_union(_, _, _, _)
apply_inclusions_union(family, selected_cards, inclusions, filtered_cards) ==
    IF inclusions = <<>>
    THEN [err |-> "none", cards |-> filtered_cards]
    ELSE IF selected_cards = <<>>
    THEN apply_inclusions_union(family, selected_cards, Tail(inclusions),
                                filtered_cards)
    ELSE LET t == get_test_card(family, Head(inclusions))
         IN IF t.err # "none"
            THEN [err |-> t.err, cards |-> <<>>]
            ELSE apply_inclusions_union(family, selected_cards, Tail(inclusions),
                    filtered_cards
                    \o SelectSeq(selected_cards,
                          LAMBDA c : /\ same(family, c, t.card)
                                     /\ ~ListContains(filtered_cards, c)))

\* for r in rank: filtered_cards += the cards that match
RECURSIVE apply_inclusions(_, _, _, _)
apply_inclusions(family, selected_cards, inclusions, filtered_cards) ==
    IF inclusions = <<>>
    THEN [err |-> "none", cards |-> filtered_cards]
    ELSE IF selected_cards = <<>>
    THEN apply_inclusions(family, selected_cards, Tail(inclusions), filtered_cards)
    ELSE LET t == get_test_card(family, Head(inclusions))
         IN IF t.err # "none"
            THEN [err |-> t.err, cards |-> <<>>]
            ELSE apply_inclusions(family, selected_cards, Tail(inclusions),
                    filtered_cards
                    \o SelectSeq(selected_cards, LAMBDA c : same(family, c, t.card)))

\* the rank stage and the suit stage: list(criterion) raises TypeError for a
\* scalar that is neither int nor str, and del raises UnboundLocalError when
\* neither loop has bound its variable
select_stage(family, selected_cards, criterion) ==
    IF criterion.k = "none"
    THEN [err |-> "none", cards |-> selected_cards]
    ELSE IF criterion.k = "scalar" /\ criterion.items[1].k \notin {"int", "str"}
    THEN [err |-> "TypeError", cards |-> <<>>]
    ELSE LET sep == separate_exclusions(criterion.items, Len(criterion.items),
                                        <<>>, <<>>)
             e == apply_exclusions(family, selected_cards, sep.excl)
         IN IF e.err # "none"
            THEN e
            ELSE LET i == apply_inclusions(family, e.cards, sep.incl, <<>>)
                 IN IF i.err # "none"
                    THEN i
                    ELSE IF sep.excl = <<>> /\ sep.incl = <<>>
                    THEN [err |-> "UnboundLocalError", cards |-> <<>>]
                    ELSE i

\* the color and face_card filters
select_filters(self, selected_cards, color, face_card) ==
    IF color.k = "str" /\ ~(color.bangs = 0 /\ color.name \in {"Black", "Red"})
    THEN Raise(self, "ValueError")
    ELSE IF color.k \notin {"none", "bool", "str"}
    THEN Raise(self, "TypeError")
    ELSE LET by_color == IF color.k = "none" THEN selected_cards
                         ELSE SelectSeq(selected_cards,
                                        LAMBDA c : has_color(c, color))
         IN IF face_card.k \notin {"none", "bool"}
            THEN Raise(self, "TypeError")
            ELSE NewDeckRet(self,
                    <<CardListArg(
                        IF face_card.k = "none" THEN by_color
                        ELSE SelectSeq(by_color,
                                LAMBDA c : c.face_card = (face_card.n = 1)))>>)

select(self, rank, suit, color, face_card) ==
    LET by_rank == select_stage("rank", self, rank)
    IN IF by_rank.err # "none"
       THEN Raise(self, by_rank.err)
       ELSE LET by_suit == select_stage("suit", by_rank.cards, suit)
            IN IF by_suit.err # "none"
               THEN Raise(self, by_suit.err)
               ELSE select_filters(self, by_suit.cards, color, face_card)

(***************************************************************************)
(* Deck.sort_by_suit and Deck.sort_by_rank.  The key of a card is a pair,  *)
(* compared as Python compares tuples; an Ace counts as get_ace_value()    *)
(* says when the sort is called.                                           *)
(***************************************************************************)
\* Card.get_ace_value under the setting worth_1
get_ace_value(worth_1) == IF worth_1 THEN 1 ELSE 14

\* a < b for two pairs of ints
TupleLess(a, b) == a[1] < b[1] \/ (a[1] = b[1] /\ a[2] < b[2])

\* sorted(lst, key=...): keys[i] is the key of lst[i]; ascending and stable
sorted(lst, keys) ==
    LET n == Len(lst)
        before(i) == {j \in 1..n : \/ TupleLess(keys[j], keys[i])
                                   \/ (keys[j] = keys[i] /\ j < i)}
    IN [p \in 1..n |-> lst[CHOOSE i \in 1..n : Cardinality(before(i)) = p - 1]]

\* a rank key that leaves the Ace at 1 whatever the setting
rank_key_plain(card, worth_1) == <<card.rank, card.suit>>

\* the key of sort_by_rank
rank_key(card, worth_1) ==
    <<IF card.rank # 1 THEN card.rank ELSE get_ace_value(worth_1), card.suit>>

\* a suit key that compares the rank first
suit_key_rank_first(card, worth_1) ==
    <<IF card.rank # 1 THEN card.rank ELSE get_ace_value(worth_1), card.suit>>

\* the key of sort_by_suit
suit_key(card, worth_1) ==
    <<card.suit, IF card.rank # 1 THEN card.rank ELSE get_ace_value(worth_1)>>

sort_by_suit(self, worth_1) ==
    Done(sorted(self, [i \in 1..Len(self) |-> suit_key(self[i], worth_1)]), NoRet)

sort_by_rank(self, worth_1) ==
    Done(sorted(self, [i \in 1..Len(self) |-> rank_key(self[i], worth_1)]), NoRet)

(***************************************************************************)
(* Card.copy and Joker.copy: a new object of the same class, built with    *)
(* fixed arguments and given the four attributes of the original.          *)
(***************************************************************************)
\* every card copied by Card.copy, a Joker too
Card_copy_as_card(self) ==
    [Card(1, 1) EXCEPT !.rank = self.rank, !.suit = self.suit,
                       !.color = self.color, !.face_card = self.face_card]

Card_copy(self) ==
    IF self.cls = "Joker"
    THEN [Joker(TRUE) EXCEPT !.rank = self.rank, !.suit = self.suit,
                             !.color = self.color, !.face_card = self.face_card]
    ELSE [Card(1, 1) EXCEPT !.rank = self.rank, !.suit = self.suit,
                            !.color = self.color, !.face_card = self.face_card]

(***************************************************************************)
(* The comparisons of Card.  The other operand is an element: a card, or a *)
(* value of another type, for which every comparison raises ValueError.    *)
(***************************************************************************)
\* get_ace_value() if card.rank == 1 else card.rank
compared_rank(card, worth_1) ==
    IF card.rank = 1 THEN get_ace_value(worth_1) ELSE card.rank

\* __lt__ on (rank, suit)
Card_lt_with_suit(self, other, worth_1) ==
    IF ~IsCardType(other)
    THEN [err |-> "ValueError", ret |-> NoRet]
    ELSE [err |-> "none",
          ret |-> BoolRet(TupleLess(<<compared_rank(self, worth_1), self.suit>>,
                                    <<compared_rank(other.card, worth_1),
                                      other.card.suit>>))]

Card_lt(self, other, worth_1) ==
    IF ~IsCardType(other)
    THEN [err |-> "ValueError", ret |-> NoRet]
    ELSE [err |-> "none",
          ret |-> BoolRet(compared_rank(self, worth_1)
                            < compared_rank(other.card, worth_1))]

Card_le(self, other, worth_1) ==
    IF ~IsCardType(other)
    THEN [err |-> "ValueError", ret |-> NoRet]
    ELSE [err |-> "none",
          ret |-> BoolRet(compared_rank(self, worth_1)
                            <= compared_rank(other.card, worth_1))]

Card_gt(self, other, worth_1) ==
    IF ~IsCardType(other)
    THEN [err |-> "ValueError", ret |-> NoRet]
    ELSE [err |-> "none",
          ret |-> BoolRet(compared_rank(self, worth_1)
                            > compared_rank(other.card, worth_1))]

Card_ge(self, other, worth_1) ==
    IF ~IsCardType(other)
    THEN [err |-> "ValueError", ret |-> NoRet]
    ELSE [err |-> "none",
          ret |-> BoolRet(compared_rank(self, worth_1)
                            >= compared_rank(other.card, worth_1))]

\* __eq__ without the face-card flag
Card_eq_three_attributes(self, other) ==
    IF ~IsCardType(other)
    THEN [err |-> "ValueError", ret |-> NoRet]
    ELSE [err |-> "none",
          ret |-> BoolRet(/\ self.rank = other.card.rank
                          /\ self.suit = other.card.suit
                          /\ self.color = other.card.color)]

\* same_rank and same_suit and same_color and face_card == face_card
Card_eq(self, other) ==
    IF ~IsCardType(other)
    THEN [err |-> "ValueError", ret |-> NoRet]
    ELSE [err |-> "none", ret |-> BoolRet(CardEq(self, other.card))]

\* not self.__eq__(other)
Card_ne(self, other) ==
    LET e == Card_eq(self, other)
    IN IF e.err # "none" THEN e ELSE [err |-> "none", ret |-> BoolRet(~e.ret.b)]

\* a (op) b for the six operators
compare(op, self, other, worth_1) ==
    CASE op = "lt" -> Card_lt(self, other, worth_1)
      [] op = "le" -> Card_le(self, other, worth_1)
      [] op = "gt" -> Card_gt(self, other, worth_1)
      [] op = "ge" -> Card_ge(self, other, worth_1)
      [] op = "eq" -> Card_eq(self, other)
      [] op = "ne" -> Card_ne(self, other)

(***************************************************************************)
(* Deck.copy, +, *, ==, != and hash.  The other operand of + and == is an  *)
(* argument value: a Deck with its cards, or a list.                       *)
(***************************************************************************)
\* a copy holding the cards themselves
Deck_copy_shallow(self) == NewDeckRet(self, <<CardListArg(self)>>)

\* Deck([card.copy() for card in self.cards])
Deck_copy(self) ==
    NewDeckRet(self, <<CardListArg([i \in 1..Len(self) |-> Card_copy(self[i])])>>)

\* Deck(self.cards + other_deck.cards), for a Deck only
Deck_add(self, other) ==
    IF other.k # "deck"
    THEN Raise(self, "TypeError")
    ELSE NewDeckRet(self, <<CardListArg(self \o CardsOf(other.items))>>)

\* lst * num
RECURSIVE ListRepeat(_, _)
ListRepeat(lst, num) == IF num <= 0 THEN <<>> ELSE lst \o ListRepeat(lst, num - 1)

\* Deck(self.cards * num), for an int >= 0 only
Deck_mul(self, num) ==
    IF num.k # "int" \/ num.n < 0
    THEN Raise(self, "ValueError")
    ELSE NewDeckRet(self, <<CardListArg(ListRepeat(self, num.n))>>)

\* False for what is not a Deck, else self.cards == other_deck.cards
Deck_eq(self, other) ==
    IF other.k # "deck" THEN FALSE ELSE ListEq(self, CardsOf(other.items))

\* not self.__eq__(other_deck)
Deck_ne(self, other) == ~Deck_eq(self, other)

\* hash(tuple(self.cards)) hashes every card, and Card, which defines __eq__
\* and no __hash__, is unhashable: TypeError unless the tuple is empty.
\* The hash of the empty tuple is one number of the build, written 0.
Deck_hash(self) ==
    IF Len(self) > 0 THEN Raise(self, "TypeError") ELSE Done(self, IntRet(0))

\* whether the list Deck(args) keeps is the list object it was given
flatten_returns_single_list(args) == Len(args) = 1 /\ args[1].k = "list"

\* the comprehension of _flatten_nested_collections builds a new list,
\* whatever the arguments
flatten_returns_argument(args) == FALSE

\* select hands self.cards itself to Deck() when no criterion rebuilt it
select_passes_self_cards(rank, suit, color, face_card) ==
    /\ rank.k = "none"
    /\ suit.k = "none"
    /\ color.k = "none"
    /\ face_card.k = "none"

(***************************************************************************)
(* Inputs of the calls.                                                    *)
(***************************************************************************)
\* the card values the calls are given
ModelCards == {Card(1, 1), Joker(TRUE)}

SeqsUpTo(S, n) == UNION {[1..m -> S] : m \in 0..n}

CardElts == {CardElt(c) : c \in ModelCards}
\* every index of a deck of length n, and one out of range on either side
IndexElts(n) == {IntElt(i) : i \in (-(n + 1))..n}

\* each element as an argument of its own
Spread(flat) == [i \in 1..Len(flat) |-> EltArg(flat[i])]

\* ways to pass the elements flat: one by one, in one list, the first alone
\* and the rest in a tuple, and (cards only) in a Deck
Bundles(flat) ==
    {Spread(flat), <<ListArg(flat)>>}
    \cup (IF Len(flat) >= 2
          THEN {<<EltArg(Head(flat)), TupleArg(Tail(flat))>>} ELSE {})
    \cup (IF \A i \in 1..Len(flat) : IsCardType(flat[i])
          THEN {<<DeckArg(CardsOf(flat))>>} ELSE {})

\* the argument bundles whose elements come from elts
ArgBundles(elts) == UNION {Bundles(flat) : flat \in SeqsUpTo(elts, MaxArgs)}

\* index=None, an int index in or just out of [-n, n], or a bool
AddIndexes(n) == {NoIndex, BoolIndex} \cup {IntIndex(i) : i \in (-(n + 1))..(n + 1)}

\* the values randint / choice can return over a call on n cards
PickSeqs(n, amount) ==
    LET m == IF amount < n THEN amount ELSE n
    IN {p \in [1..m -> 0..(n - 1)] : \A j \in 1..m : p[j] <= n - j}

(***************************************************************************)
(* The state: the receiver deck's cards, and the record of the call just   *)
(* made on it (none when the caller has moved on).                         *)
(***************************************************************************)
NoCall ==
    [op |-> "none", args |-> <<>>, index |-> NoIndex, amount |-> 0,
     picks |-> <<>>, old |-> <<>>, ret |-> NoRet, err |-> "none"]

Idle == call.op = "none"

\* the call op(...) on the receiver ended as r
Called(op, args, at, amount, picks, r) ==
    /\ call' = [op |-> op, args |-> args, index |-> at, amount |-> amount,
                picks |-> picks, old |-> cards, ret |-> r.ret, err |-> r.err]
    /\ cards' = r.cards
    /\ UNCHANGED <<ace_worth_1, other_deck, name_order>>

\* no second deck is held
NoDeck == [held |-> FALSE, cards |-> <<>>, same_list |-> FALSE]

\* the receiver is Deck([])
Init ==
    /\ cards = <<>>
    /\ call = NoCall
    /\ ace_worth_1 = FALSE
    /\ other_deck = NoDeck
    /\ name_order = DefaultNameOrder

AddCall ==
    /\ Idle
    /\ \E args \in ArgBundles(CardElts \cup {BoolElt}),
          at \in AddIndexes(Len(cards)) :
          /\ Len(cards) + Len(flatten_nested_collections(args)) <= MaxLen
          /\ Called("add", args, at, 0, <<>>, add(cards, args, at))

RemoveCall ==
    /\ Idle
    /\ \E args \in ArgBundles(CardElts \cup IndexElts(Len(cards)) \cup {BoolElt}) :
          Called("remove", args, NoIndex, 0, <<>>, remove(cards, args))

GetCall ==
    /\ Idle
    /\ \E args \in ArgBundles(IndexElts(Len(cards)) \cup {BoolElt}) :
          Called("get", args, NoIndex, 0, <<>>, get(cards, args))

DrawCall ==
    /\ Idle
    /\ \E args \in ArgBundles(IndexElts(Len(cards)) \cup {BoolElt}) :
          Called("draw", args, NoIndex, 0, <<>>, draw(cards, args))

DrawRandomCall ==
    /\ Idle
    /\ \E amount \in 0..(MaxLen + 1) :
          \E picks \in PickSeqs(Len(cards), amount) :
             Called("draw_random", <<>>, NoIndex, amount, picks,
                    draw_random(cards, amount, picks))

GetRandomCall ==
    /\ Idle
    /\ \E amount \in 0..(MaxLen + 1) :
          \E picks \in PickSeqs(Len(cards), amount) :
             Called("get_random", <<>>, NoIndex, amount, picks,
                    get_random(cards, amount, picks))

IndexCall ==
    /\ Idle
    /\ \E args \in ArgBundles(CardElts \cup {BoolElt}) :
          Called("index", args, NoIndex, 0, <<>>, index(cards, args))

\* i = deck.index(c) is followed by deck.get(i)
GetIndexed ==
    /\ call.op = "index"
    /\ call.err = "none"
    /\ call.ret.k = "int"
    /\ Called("get_indexed", call.args, IntIndex(call.ret.n), 0, <<>>,
              get(cards, <<EltArg(IntElt(call.ret.n))>>))

\* card = deck.draw(i) is followed by deck.add(card, index=i)
AddDrawn ==
    /\ call.op = "draw"
    /\ call.err = "none"
    /\ Len(call.args) = 1
    /\ call.args[1].k = "int"
    /\ Called("add_drawn", <<RetArg(call.ret)>>, IntIndex(call.args[1].n), 0, <<>>,
              add(cards, <<RetArg(call.ret)>>, IntIndex(call.args[1].n)))

\* the caller moves on to its next statement
Forget ==
    /\ ~Idle
    /\ call' = NoCall
    /\ UNCHANGED <<cards, ace_worth_1, other_deck, name_order>>

Next ==
    \/ AddCall
    \/ RemoveCall
    \/ GetCall
    \/ DrawCall
    \/ AddDrawn
    \/ DrawRandomCall
    \/ GetRandomCall
    \/ IndexCall
    \/ GetIndexed
    \/ Forget

Spec == Init /\ [][Next]_vars

(***************************************************************************)
(* The constructor on its own: deck = Deck(args...) for heterogeneous      *)
(* arguments.  The caller puts the arguments together one at a time, as    *)
(* the tests' generate_combinatory_arguments does, and then constructs.    *)
(* An argument costs 1, or its number of items if it holds more than one;  *)
(* the argument lists of total cost up to MaxCtorElts are tried.           *)
(***************************************************************************)
CtorAtoms == CardElts \cup {BoolElt, IntElt(0)}
CtorInner == CardElts \cup {BoolElt, NestedListElt, NestedDeckElt}

ArgsOfCost(c) ==
    (IF c = 1
     THEN {EltArg(e) : e \in CtorAtoms}
          \cup {ListArg(<<>>), TupleArg(<<>>), DeckArg(<<>>)}
     ELSE {})
    \cup {ListArg(items) : items \in [1..c -> CtorInner]}
    \cup {TupleArg(items) : items \in [1..c -> CtorInner]}
    \cup {DeckArg(cs) : cs \in [1..c -> ModelCards]}

RECURSIVE ArgsCost(_)
ArgsCost(args) ==
    IF args = <<>> THEN 0
    ELSE (IF Len(Head(args).items) > 1 THEN Len(Head(args).items) ELSE 1)
         + ArgsCost(Tail(args))

\* args += [...]: one more argument for the constructor call to come
GiveArg ==
    /\ call.op \in {"none", "args"}
    /\ \E c \in 1..(MaxCtorElts - ArgsCost(call.args)) :
          \E a \in ArgsOfCost(c) :
             call' = [call EXCEPT !.op = "args", !.args = Append(call.args, a)]
    /\ UNCHANGED <<cards, ace_worth_1, other_deck, name_order>>

\* deck = Deck(args...): on a TypeError no deck is bound
NewDeck ==
    /\ call.op \in {"none", "args"}
    /\ LET d == Deck(call.args)
       IN /\ call' = [op |-> "Deck", args |-> call.args, index |-> NoIndex,
                      amount |-> 0, picks |-> <<>>, old |-> cards,
                      ret |-> NoRet, err |-> d.err]
          /\ cards' = IF d.err = "none" THEN d.cards ELSE cards
          /\ UNCHANGED <<ace_worth_1, other_deck, name_order>>

NextCtor ==
    \/ GiveArg
    \/ NewDeck

SpecCtor == Init /\ [][NextCtor]_vars

(***************************************************************************)
(* select on its own, on the standard deck of Deck(), on Deck([]) and on   *)
(* the deck of the sorting test.  The rank and suit criteria of one call   *)
(* hold up to MaxCriteria values between them (an empty list counted as    *)
(* one).                                                                   *)
(***************************************************************************)
SelectDecks ==
    {generate_standard_deck, <<>>,
     <<Card(1, 1), Joker(TRUE), Card(10, 2), Card(12, 1)>>}

RankValues ==
    {IntVal(2), IntVal(-2), StrVal(0, "King"), StrVal(1, "King"),
     StrVal(0, "Knight"), IntVal(-14), FloatVal(52), BoolVal(FALSE)}
SuitValues ==
    {IntVal(1), StrVal(0, "Hearts"), StrVal(1, "Hearts"),
     IntVal(-5), StrVal(0, "Club"), FloatVal(52)}
ColorValues == {NoneVal, BoolVal(TRUE), StrVal(0, "Black"), StrVal(0, "Green"),
                FloatVal(52)}
FaceCardValues == {NoneVal, BoolVal(FALSE), FloatVal(52)}

\* the criteria holding c of the values
CriteriaOfCost(values, c) ==
    IF c = 0 THEN {NoCriterion}
    ELSE (IF c = 1
          THEN {ScalarCriterion(v) : v \in values}
               \cup {TupleCriterion(<<v>>) : v \in values}
               \cup {ListCriterion(<<>>)}
          ELSE {})
         \cup {ListCriterion(items) : items \in [1..c -> values]}

InitSelect ==
    /\ name_order = DefaultNameOrder
    /\ cards \in SelectDecks
    /\ call = NoCall
    /\ ace_worth_1 = FALSE
    /\ other_deck = NoDeck

SelectCall ==
    /\ Idle
    /\ \E cr \in 0..MaxCriteria :
          \E cs \in 0..(MaxCriteria - cr) :
             \E rank \in CriteriaOfCost(RankValues, cr),
                suit \in CriteriaOfCost(SuitValues, cs),
                color \in ColorValues,
                face_card \in FaceCardValues :
                Called("select",
                       [rank |-> rank, suit |-> suit,
                        color |-> color, face_card |-> face_card],
                       NoIndex, 0, <<>>,
                       select(cards, rank, suit, color, face_card))

NextSelect ==
    \/ SelectCall
    \/ Forget

SpecSelect == InitSelect /\ [][NextSelect]_vars

(***************************************************************************)
(* Sorting on its own: a deck of up to MaxSortLen cards, the Ace setting   *)
(* switched between sorts with Card.set_ace_worth_1.                       *)
(***************************************************************************)
SortCards ==
    {Card(1, 1), Card(1, 2), Joker(TRUE), Joker(FALSE), Card(10, 2), Card(12, 1)}

InitSort ==
    /\ cards \in SeqsUpTo(SortCards, MaxSortLen)
    /\ call = NoCall
    /\ ace_worth_1 = FALSE
    /\ other_deck = NoDeck
    /\ name_order = DefaultNameOrder

\* Card.set_ace_worth_1(worth_1): TypeError for a value that is not a bool
SetAceWorth1 ==
    /\ Idle
    /\ \E worth_1 \in {BoolVal(TRUE), BoolVal(FALSE), IntVal(1)} :
          /\ call' = [op |-> "set_ace_worth_1", args |-> <<worth_1>>,
                      index |-> NoIndex, amount |-> 0, picks |-> <<>>,
                      old |-> cards, ret |-> NoRet,
                      err |-> IF worth_1.k # "bool" THEN "TypeError" ELSE "none"]
          /\ ace_worth_1' = IF worth_1.k # "bool" THEN ace_worth_1
                            ELSE worth_1.n = 1
    /\ UNCHANGED <<cards, other_deck, name_order>>

SortByRankCall ==
    /\ Idle
    /\ Called("sort_by_rank", <<>>, NoIndex, 0, <<>>,
              sort_by_rank(cards, ace_worth_1))

SortBySuitCall ==
    /\ Idle
    /\ Called("sort_by_suit", <<>>, NoIndex, 0, <<>>,
              sort_by_suit(cards, ace_worth_1))

NextSort ==
    \/ SetAceWorth1
    \/ SortByRankCall
    \/ SortBySuitCall
    \/ Forget

SpecSort == InitSort /\ [][NextSort]_vars

(***************************************************************************)
(* Deck() twice in one process.  get_suits() and get_ranks() return sets   *)
(* of names, whose iteration order the process fixes: every order of the   *)
(* four suit names, and the rotations of the rank names.                   *)
(***************************************************************************)
Orderings(S) ==
    {p \in [1..Cardinality(S) -> S] : \A i, j \in DOMAIN p : p[i] = p[j] => i = j}

SuitOrders == Orderings(DOMAIN SuitNames)
RankOrders ==
    {[i \in 1..Len(RankOrder) |-> RankOrder[((i - 1 + k) % Len(RankOrder)) + 1]] :
        k \in 0..(Len(RankOrder) - 1)}

InitStd ==
    /\ name_order \in [suits : SuitOrders, ranks : RankOrders]
    /\ cards = <<>>
    /\ call = NoCall
    /\ ace_worth_1 = FALSE
    /\ other_deck = NoDeck

\* second = Deck(), after the first
OtherStandardDeck ==
    /\ call.op = "Deck"
    /\ ~other_deck.held
    /\ other_deck' = [held |-> TRUE, cards |-> Deck(<<>>).cards,
                      same_list |-> FALSE]
    /\ UNCHANGED <<cards, call, ace_worth_1, name_order>>

NextStd ==
    \/ NewDeck
    \/ OtherStandardDeck

SpecStd == InitStd /\ [][NextStd]_vars

(***************************************************************************)
(* Cards on their own.  The program builds up to two cards with the        *)
(* constructors and keeps them in a deck; it compares a card of the deck,  *)
(* or a copy of it with one attribute overwritten, with a card of the deck *)
(* or with a value that is not a card; it switches the Ace setting, sorts  *)
(* the deck and copies it.                                                 *)
(***************************************************************************)
\* a comparison has two operands
Operands == 2

CardRankInputs ==
    {IntVal(1), IntVal(10), StrVal(0, "Jack"), IntVal(13),
     IntVal(0), IntVal(14), StrVal(0, "Joker"), StrVal(1, "King"),
     BoolVal(TRUE), FloatVal(100)}
CardSuitInputs ==
    {IntVal(1), StrVal(0, "Spades"), IntVal(3), StrVal(0, "Hearts"),
     IntVal(0), IntVal(5), StrVal(0, "Club"), NoneVal}
JokerColorInputs ==
    {BoolVal(TRUE), BoolVal(FALSE), StrVal(0, "Red"), StrVal(0, "Black"),
     StrVal(0, "Green"), IntVal(1), NoneVal}

\* x.color = v or x.face_card = v on a copy x, or nothing
NoOverwrite == [attr |-> "none", v |-> FALSE]
Overwrites ==
    {NoOverwrite} \cup [attr : {"color", "face_card"}, v : BOOLEAN]

overwritten(card, w) ==
    IF w.attr = "color" THEN [Card_copy(card) EXCEPT !.color = w.v]
    ELSE IF w.attr = "face_card" THEN [Card_copy(card) EXCEPT !.face_card = w.v]
    ELSE card

\* deck.add(Card(rank, suit)): nothing is added when the constructor raises
NewCard ==
    /\ Idle
    /\ Len(cards) < Operands
    /\ \E rank \in CardRankInputs, suit \in CardSuitInputs :
          LET c == Card_init(rank, suit)
          IN /\ call' = [op |-> "Card", args |-> <<rank, suit>>,
                         index |-> NoIndex, amount |-> 0, picks |-> <<>>,
                         old |-> cards,
                         ret |-> IF c.err = "none" THEN CardRet(c.card) ELSE NoRet,
                         err |-> c.err]
             /\ cards' = IF c.err = "none" THEN Append(cards, c.card) ELSE cards
    /\ UNCHANGED <<ace_worth_1, other_deck, name_order>>

\* deck.add(Joker(color))
NewJoker ==
    /\ Idle
    /\ Len(cards) < Operands
    /\ \E color \in JokerColorInputs :
          LET c == Joker_init(color)
          IN /\ call' = [op |-> "Joker", args |-> <<color>>,
                         index |-> NoIndex, amount |-> 0, picks |-> <<>>,
                         old |-> cards,
                         ret |-> IF c.err = "none" THEN CardRet(c.card) ELSE NoRet,
                         err |-> c.err]
             /\ cards' = IF c.err = "none" THEN Append(cards, c.card) ELSE cards
    /\ UNCHANGED <<ace_worth_1, other_deck, name_order>>

\* a (op) b: a is deck[i] or an overwritten copy of it, b is deck[j] or a
\* value that is not a card
CompareCall ==
    /\ Idle
    /\ \E op \in {"lt", "le", "gt", "ge", "eq", "ne"},
          i \in 1..Len(cards), w \in Overwrites,
          b \in {CardElt(cards[j]) : j \in 1..Len(cards)}
                   \cup {IntElt(1), BoolElt, NestedListElt} :
          LET a == overwritten(cards[i], w)
              r == compare(op, a, b, ace_worth_1)
          IN call' = [op |-> op, args |-> <<CardElt(a), b>>,
                      index |-> NoIndex, amount |-> 0, picks |-> <<>>,
                      old |-> cards, ret |-> r.ret, err |-> r.err]
    /\ UNCHANGED <<cards, ace_worth_1, other_deck, name_order>>

NextCard ==
    \/ NewCard
    \/ NewJoker
    \/ CompareCall
    \/ SetAceWorth1
    \/ SortByRankCall
    \/ Forget

SpecCard == Init /\ [][NextCard]_vars

(***************************************************************************)
(* remove given one index and one card, on the decks of Aces and Twos of   *)
(* Clubs: remove(i, c), remove(c, i) and remove([i, c]).                   *)
(***************************************************************************)
RemoveCards == {Card(1, 1), Card(2, 1)}

InitRemove ==
    /\ cards \in SeqsUpTo(RemoveCards, MaxLen)
    /\ call = NoCall
    /\ ace_worth_1 = FALSE
    /\ other_deck = NoDeck
    /\ name_order = DefaultNameOrder

RemoveIndexAndCard ==
    /\ Idle
    /\ \E i \in IndexElts(Len(cards)), c \in {CardElt(x) : x \in RemoveCards} :
          \E args \in {<<EltArg(i), EltArg(c)>>, <<EltArg(c), EltArg(i)>>,
                        <<ListArg(<<i, c>>)>>} :
             Called("remove", args, NoIndex, 0, <<>>, remove(cards, args))

NextRemove ==
    \/ RemoveIndexAndCard
    \/ Forget

SpecRemove == InitRemove /\ [][NextRemove]_vars

(***************************************************************************)
(* Two decks side by side.  Each card object carries an id: two positions  *)
(* holding the same id hold the same object, so an attribute overwritten   *)
(* through one is seen through the other.  The receiver makes one call     *)
(* whose result, when it is a Deck, the caller keeps as other_deck; the    *)
(* caller then changes one of the two decks, or one card of one of them,   *)
(* or compares them.                                                       *)
(***************************************************************************)
WithId(c, i) ==
    [cls |-> c.cls, rank |-> c.rank, suit |-> c.suit, color |-> c.color,
     face_card |-> c.face_card, id |-> i]

\* the cards built by a constructor during the call are new objects
Identified(cs, base) ==
    [j \in 1..Len(cs) |->
        IF "id" \in DOMAIN cs[j] THEN cs[j] ELSE WithId(cs[j], base + j)]

\* the largest id in use
FreshBase ==
    LET ids == {cards[j].id : j \in 1..Len(cards)}
                 \cup {other_deck.cards[j].id : j \in 1..Len(other_deck.cards)}
                 \cup {0}
    IN CHOOSE m \in ids : \A i \in ids : i <= m

InitAlias ==
    /\ cards \in {Identified(cs, 0) : cs \in SeqsUpTo(ModelCards, MaxAliasLen)}
    /\ call = NoCall
    /\ ace_worth_1 = FALSE
    /\ other_deck = NoDeck
    /\ name_order = DefaultNameOrder

\* the call op(...) on the receiver ended as r; a Deck it returned is kept
Produced(op, args, amount, picks, r, shared) ==
    LET kept == r.err = "none" /\ r.ret.k = "deck"
        new == Identified(r.ret.cards, FreshBase)
    IN /\ call' = [op |-> op, args |-> args, index |-> NoIndex,
                   amount |-> amount, picks |-> picks, old |-> cards,
                   ret |-> IF kept THEN DeckRet(new) ELSE r.ret, err |-> r.err]
       /\ cards' = r.cards
       /\ other_deck' = IF kept
                        THEN [held |-> TRUE, cards |-> new, same_list |-> shared]
                        ELSE other_deck
       /\ UNCHANGED <<ace_worth_1, name_order>>

Fresh == Idle /\ ~other_deck.held

\* (), ([]), one index in or just out of range, two valid indexes, a bool
AliasIndexArgs(n) ==
    {<<>>, <<ListArg(<<>>)>>, <<EltArg(BoolElt)>>}
    \cup {<<EltArg(IntElt(i))>> : i \in (-1)..n}
    \cup {<<EltArg(IntElt(i)), EltArg(IntElt(j))>> : i, j \in 0..(n - 1)}

AliasCopy ==
    /\ Fresh
    /\ Produced("copy", <<>>, 0, <<>>, Deck_copy(cards), FALSE)

AliasGet ==
    /\ Fresh
    /\ \E args \in AliasIndexArgs(Len(cards)) :
          Produced("get", args, 0, <<>>, get(cards, args), FALSE)

AliasDraw ==
    /\ Fresh
    /\ \E args \in AliasIndexArgs(Len(cards)) :
          Produced("draw", args, 0, <<>>, draw(cards, args), FALSE)

AliasGetRandom ==
    /\ Fresh
    /\ \E amount \in 0..MaxAliasLen :
          \E picks \in PickSeqs(Len(cards), amount) :
             Produced("get_random", <<>>, amount, picks,
                      get_random(cards, amount, picks), FALSE)

AliasDrawRandom ==
    /\ Fresh
    /\ \E amount \in 0..MaxAliasLen :
          \E picks \in PickSeqs(Len(cards), amount) :
             Produced("draw_random", <<>>, amount, picks,
                      draw_random(cards, amount, picks), FALSE)

AliasIndex ==
    /\ Fresh
    /\ \E c \in ModelCards :
          \E args \in {<<EltArg(CardElt(c))>>, <<ListArg(<<CardElt(c), CardElt(c)>>)>>} :
             Produced("index", args, 0, <<>>, index(cards, args), FALSE)

AliasSelect ==
    /\ Fresh
    /\ \E rank \in {NoCriterion, ScalarCriterion(IntVal(1)),
                     ScalarCriterion(IntVal(2)), ScalarCriterion(FloatVal(52))},
          color \in {NoneVal, BoolVal(TRUE)} :
          Produced("select",
                   [rank |-> rank, suit |-> NoCriterion, color |-> color,
                    face_card |-> NoneVal],
                   0, <<>>, select(cards, rank, NoCriterion, color, NoneVal),
                   /\ select_passes_self_cards(rank, NoCriterion, color, NoneVal)
                   /\ flatten_returns_argument(<<CardListArg(cards)>>))

\* deck + other: other is the deck itself, another Deck, or a list
AliasAdd ==
    /\ Fresh
    /\ \E other \in {DeckArg(cards), DeckArg(<<>>), DeckArg(<<Card(2, 1)>>),
                      ListArg(<<>>)} :
          Produced("add_decks", <<other>>, 0, <<>>, Deck_add(cards, other), FALSE)

AliasMul ==
    /\ Fresh
    /\ \E num \in {IntVal(-1), IntVal(0), IntVal(1), IntVal(2), BoolVal(TRUE)} :
          Produced("mul", <<num>>, 0, <<>>, Deck_mul(cards, num), FALSE)

AliasHash ==
    /\ Fresh
    /\ Produced("hash", <<>>, 0, <<>>, Deck_hash(cards), FALSE)

ProducerOps ==
    {"copy", "get", "draw", "get_random", "draw_random", "index", "select",
     "add_decks", "mul"}

\* the deck left by add(Card(2, 1)), remove(0), draw() or sort_by_rank()
Mutated(lst, m) ==
    CASE m = "add" ->
           add(lst, <<EltArg(CardElt(WithId(Card(2, 1), FreshBase + 1)))>>,
               NoIndex).cards
      [] m = "remove" -> remove(lst, <<EltArg(IntElt(0))>>).cards
      [] m = "draw" -> draw(lst, <<>>).cards
      [] m = "sort_by_rank" -> sort_by_rank(lst, ace_worth_1).cards

ListMutations == {"add", "remove", "draw", "sort_by_rank"}

\* what the caller did after the call, on which deck: a call named by do,
\* or the attribute named by do of the card at position at set to v
Followed(op, do, at, v) ==
    call' = [op |-> op,
             args |-> [after |-> call.op, do |-> do, at |-> at, v |-> v,
                       other_old |-> other_deck.cards],
             index |-> NoIndex, amount |-> 0, picks |-> <<>>, old |-> cards,
             ret |-> NoRet, err |-> "none"]

Returned == call.op \in ProducerOps /\ other_deck.held

\* a call on the Deck returned changes its list, which is the receiver's
\* list when the two decks hold the same list
MutateOther ==
    /\ Returned
    /\ \E m \in ListMutations :
          LET new == Mutated(other_deck.cards, m)
          IN /\ Followed("on_other", m, 0, FALSE)
             /\ other_deck' = [other_deck EXCEPT !.cards = new]
             /\ cards' = IF other_deck.same_list THEN new ELSE cards
    /\ UNCHANGED <<ace_worth_1, name_order>>

MutateReceiver ==
    /\ Returned
    /\ \E m \in ListMutations :
          LET new == Mutated(cards, m)
          IN /\ Followed("on_receiver", m, 0, FALSE)
             /\ cards' = new
             /\ other_deck' = IF other_deck.same_list
                              THEN [other_deck EXCEPT !.cards = new]
                              ELSE other_deck
    /\ UNCHANGED <<ace_worth_1, name_order>>

\* lst seen after the attribute of the object x is overwritten
Rewritten(lst, x, w) ==
    [i \in 1..Len(lst) |->
        IF lst[i].id # x THEN lst[i]
        ELSE IF w.attr = "color" THEN [lst[i] EXCEPT !.color = w.v]
        ELSE [lst[i] EXCEPT !.face_card = w.v]]

\* deck[j].color = v or deck[j].face_card = v, on either deck
OverwriteAttribute ==
    /\ Returned
    /\ \E t \in {"on_other", "on_receiver"}, w \in Overwrites \ {NoOverwrite} :
          LET target == IF t = "on_other" THEN other_deck.cards ELSE cards
          IN \E j \in 1..Len(target) :
                /\ Followed(t, w.attr, j, w.v)
                /\ cards' = Rewritten(cards, target[j].id, w)
                /\ other_deck' = [other_deck EXCEPT
                                     !.cards = Rewritten(other_deck.cards,
                                                         target[j].id, w)]
    /\ UNCHANGED <<ace_worth_1, name_order>>

\* deck == other and deck != other: other is the Deck returned, or its list
DeckEqCall ==
    /\ Returned
    /\ \E op \in {"deck_eq", "deck_ne"},
          other \in {DeckArg(other_deck.cards), CardListArg(other_deck.cards)} :
          /\ call' = [op |-> op, args |-> <<other>>, index |-> NoIndex,
                      amount |-> 0, picks |-> <<>>, old |-> cards,
                      ret |-> BoolRet(IF op = "deck_eq" THEN Deck_eq(cards, other)
                                      ELSE Deck_ne(cards, other)),
                      err |-> "none"]
    /\ UNCHANGED <<cards, ace_worth_1, other_deck, name_order>>

NextAlias ==
    \/ AliasCopy
    \/ AliasGet
    \/ AliasDraw
    \/ AliasGetRandom
    \/ AliasDrawRandom
    \/ AliasIndex
    \/ AliasSelect
    \/ AliasAdd
    \/ AliasMul
    \/ AliasHash
    \/ MutateOther
    \/ MutateReceiver
    \/ OverwriteAttribute
    \/ DeckEqCall
    \/ Forget

SpecAlias == InitAlias /\ [][NextAlias]_vars

(***************************************************************************)
(* Reference definitions the properties are stated with.                   *)
(***************************************************************************)
\* how many elements an argument contributes after one level of flattening
Width(a) == IF a.k \in {"list", "tuple", "deck"} THEN Len(a.items) ELSE 1

\* how many elements the arguments before the i-th contribute
RECURSIVE Offset(_, _)
Offset(args, i) == IF i = 1 THEN 0 ELSE Offset(args, i - 1) + Width(args[i - 1])

\* the one-level flattening, position by position
ExpectedFlat(args) ==
    [p \in 1..Offset(args, Len(args) + 1) |->
        LET i == CHOOSE i \in 1..Len(args) :
                    Offset(args, i) < p /\ p <= Offset(args, i) + Width(args[i])
        IN IF args[i].k \in {"list", "tuple", "deck"}
           THEN args[i].items[p - Offset(args, i)]
           ELSE [k |-> args[i].k, card |-> args[i].card, n |-> args[i].n]]

\* the cards among the elements, in order
RECURSIVE CardArgs(_)
CardArgs(flat) ==
    IF flat = <<>> THEN <<>>
    ELSE (IF Head(flat).k = "card" THEN <<Head(flat).card>> ELSE <<>>)
         \o CardArgs(Tail(flat))

\* the positions (0-based) the int elements name in a deck of length n
ResolvedPositions(flat, n) ==
    {IF flat[j].n < 0 THEN n + flat[j].n ELSE flat[j].n :
        j \in {j \in 1..Len(flat) : flat[j].k = "int"}}

\* seq without the positions (0-based) in R, the rest in order
RECURSIVE WithoutPositions(_, _, _)
WithoutPositions(seq, R, i) ==
    IF i > Len(seq) THEN <<>>
    ELSE (IF (i - 1) \in R THEN <<>> ELSE <<seq[i]>>)
         \o WithoutPositions(seq, R, i + 1)

\* seq without its first card equal to c, or seq when it holds none
WithoutFirst(seq, c) ==
    IF \E i \in 1..Len(seq) : CardEq(seq[i], c)
    THEN LET p == CHOOSE p \in 1..Len(seq) :
                     /\ CardEq(seq[p], c)
                     /\ \A q \in 1..(p - 1) : ~CardEq(seq[q], c)
         IN SubSeq(seq, 1, p - 1) \o SubSeq(seq, p + 1, Len(seq))
    ELSE seq

RECURSIVE WithoutEach(_, _)
WithoutEach(seq, cs) ==
    IF cs = <<>> THEN seq ELSE WithoutEach(WithoutFirst(seq, Head(cs)), Tail(cs))

\* how many cards of seq equal c
Count(seq, c) == Cardinality({i \in 1..Len(seq) : CardEq(seq[i], c)})

\* the cards a call handed back
RetCards(ret) ==
    IF ret.k = "card" THEN <<ret.card>>
    ELSE IF ret.k = "deck" THEN ret.cards
    ELSE <<>>

\* what is wrong with element e of a remove on deck old ("none": nothing)
RemoveFault(old, e) ==
    IF e.k = "int"
    THEN IF e.n < -Len(old) \/ e.n >= Len(old) THEN "IndexError" ELSE "none"
    ELSE IF e.k = "card"
    THEN IF \E i \in 1..Len(old) : CardEq(old[i], e.card) THEN "none" ELSE "ValueError"
    ELSE "TypeError"

\* the fault of the first faulty element
FirstFault(old, flat) ==
    IF \A j \in 1..Len(flat) : RemoveFault(old, flat[j]) = "none"
    THEN "none"
    ELSE LET j == CHOOSE j \in 1..Len(flat) :
                     /\ RemoveFault(old, flat[j]) # "none"
                     /\ \A q \in 1..(j - 1) : RemoveFault(old, flat[q]) = "none"
         IN RemoveFault(old, flat[j])

(***************************************************************************)
(* C1: a successful remove leaves the old sequence with every distinct     *)
(* resolved index position deleted once and then, for each card argument   *)
(* in argument order, the first remaining equal card deleted if one        *)
(* remains; the survivors keep their order.                                *)
(***************************************************************************)
C1_RemoveResult ==
    (call.op = "remove" /\ call.err = "none") =>
        LET flat == ExpectedFlat(call.args)
        IN cards = WithoutEach(
                      WithoutPositions(call.old,
                                       ResolvedPositions(flat, Len(call.old)), 1),
                      CardArgs(flat))

\* two positions given in ascending order, one of them negative, both removed
C1_Witness ==
    /\ call.op = "remove"
    /\ call.err = "none"
    /\ Len(call.args) = 2
    /\ call.args[1].k = "int" /\ call.args[1].n = 0
    /\ call.args[2].k = "int" /\ call.args[2].n = -1
    /\ Len(call.old) = 3
    /\ Len(cards) = 1

C3_AddResult ==
    LET flat == ExpectedFlat(call.args)
        b == CardArgs(flat)
        n == Len(call.old)
        i == call.index.n
        r == IF i >= 0 THEN i ELSE n + i
    IN (/\ call.op = "add"
        /\ \A p \in 1..Len(flat) : flat[p].k = "card"
        /\ call.index.k \in {"none", "int"}
        /\ call.index.k = "int" => (-n <= i /\ i <= n))
       => /\ call.err = "none"
          /\ call.index.k = "none" => cards = call.old \o b
          /\ call.index.k = "int" =>
                cards = SubSeq(call.old, 1, r) \o b \o SubSeq(call.old, r + 1, n)
          /\ (call.index.k = "int" /\ i = -1 /\ n >= 1) =>
                /\ SubSeq(cards, 1, n - 1) = SubSeq(call.old, 1, n - 1)
                /\ SubSeq(cards, n, n + Len(b) - 1) = b
                /\ cards[n + Len(b)] = call.old[n]

\* a batch of two different cards put before the last card with index=-1
C3_Witness ==
    /\ call.op = "add"
    /\ call.err = "none"
    /\ call.index = IntIndex(-1)
    /\ Len(call.old) = 1
    /\ Len(cards) = 3
    /\ cards[1] # cards[2]
    /\ cards[3] = call.old[1]

(***************************************************************************)
(* C4: add raises TypeError for an index that is not an int, IndexError    *)
(* for an int index outside [-len, len], TypeError for a flattened         *)
(* argument that is not a Card/Joker; in each case the deck is unchanged.  *)
(***************************************************************************)
C4_AddErrors ==
    LET flat == ExpectedFlat(call.args)
        n == Len(call.old)
        expected ==
            IF call.index.k \notin {"none", "int"} THEN "TypeError"
            ELSE IF call.index.k = "int" /\ (call.index.n < -n \/ call.index.n > n)
            THEN "IndexError"
            ELSE IF \E p \in 1..Len(flat) : flat[p].k # "card" THEN "TypeError"
            ELSE "none"
    IN call.op = "add" =>
          /\ call.err = expected
          /\ call.err # "none" => cards = call.old

\* a batch of cards with an index one past the end: IndexError, no insertion
C4_Witness ==
    /\ call.op = "add"
    /\ call.err = "IndexError"
    /\ call.index.k = "int"
    /\ call.index.n = Len(call.old) + 1
    /\ Len(call.args) >= 1
    /\ \A p \in 1..Len(call.args) : call.args[p].k = "card"
    /\ cards = call.old

(***************************************************************************)
(* C5: Deck(args...) with one or more arguments holds exactly the one-level  *)
(* flattening of the arguments, order and duplicates kept; an element      *)
(* that is not a Card/Joker after that one level makes it a TypeError.     *)
(***************************************************************************)
C5_DeckFlattens ==
    (call.op = "Deck" /\ Len(call.args) >= 1) =>
        LET flat == ExpectedFlat(call.args)
        IN IF \E p \in 1..Len(flat) : flat[p].k # "card"
           THEN call.err = "TypeError"
           ELSE /\ call.err = "none"
                /\ cards = [p \in 1..Len(flat) |-> flat[p].card]

\* a card, a list and a Deck mixed, the same card twice
C5_Witness ==
    /\ call.op = "Deck"
    /\ call.err = "none"
    /\ Len(call.args) = 3
    /\ call.args[1].k = "card"
    /\ call.args[2].k = "list" /\ Len(call.args[2].items) = 1
    /\ call.args[3].k = "deck" /\ Len(call.args[3].items) = 1
    /\ Len(cards) = 3
    /\ cards[1] = cards[3]
    /\ cards[1] # cards[2]

(***************************************************************************)
(* C6: draw returns exactly what get returns on the same deck with the     *)
(* same arguments (a single card when one index is resolved, a Joker       *)
(* included, otherwise a Deck of the requested cards) and leaves the deck  *)
(* as remove with the same arguments would.                                *)
(***************************************************************************)
C6_DrawIsGetThenRemove ==
    (call.op = "draw" /\ call.err = "none") =>
        /\ call.ret = get(call.old, call.args).ret
        /\ cards = remove(call.old, call.args).cards

(***************************************************************************)
(* C7: a successful draw removes from the deck exactly the cards it        *)
(* returns: returned and remaining cards together are the cards of the     *)
(* deck before the call, so their lengths add up to the old length.        *)
(***************************************************************************)
C7_DrawRemovesWhatItReturns ==
    (call.op = "draw" /\ call.err = "none") =>
        /\ Len(RetCards(call.ret)) + Len(cards) = Len(call.old)
        /\ \A c \in ModelCards :
              Count(RetCards(call.ret), c) + Count(cards, c) = Count(call.old, c)

(***************************************************************************)
(* C8: card = deck.draw(i) followed by deck.add(card, index=i) restores    *)
(* the deck's sequence.  As claimed: for every valid i, negative ones      *)
(* included.  As amended: for every i with 0 <= i < len.                   *)
(***************************************************************************)
C8_RoundTripAnyIndex ==
    [][call'.op = "add_drawn" => cards' = call.old]_vars

C8_RoundTripNonNegative ==
    [][(call'.op = "add_drawn" /\ call'.index.n >= 0)
          => (call'.err = "none" /\ cards' = call.old)]_vars

\* a card drawn from the middle of a deck of three and put back
C8_Witness ==
    /\ call.op = "add_drawn"
    /\ call.err = "none"
    /\ call.index = IntIndex(1)
    /\ Len(cards) = 3
    /\ cards[1] # cards[2]

(***************************************************************************)
(* C9: draw_random(amount), amount >= 0, completes without raising on any  *)
(* deck, returns min(amount, len) cards and leaves the old deck minus the  *)
(* returned cards, the remaining cards in their old order.                 *)
(***************************************************************************)
\* sub is seq with some positions left out
RECURSIVE IsSubsequence(_, _)
IsSubsequence(sub, seq) ==
    IF sub = <<>> THEN TRUE
    ELSE IF seq = <<>> THEN FALSE
    ELSE IF Head(sub) = Head(seq) THEN IsSubsequence(Tail(sub), Tail(seq))
    ELSE IsSubsequence(sub, Tail(seq))

C9_DrawRandomCompletes ==
    call.op = "draw_random" =>
        /\ call.err = "none"
        /\ Len(RetCards(call.ret)) =
              (IF call.amount < Len(call.old) THEN call.amount ELSE Len(call.old))
        /\ \A c \in ModelCards :
              Count(RetCards(call.ret), c) + Count(cards, c) = Count(call.old, c)
        /\ IsSubsequence(cards, call.old)

(***************************************************************************)
(* C10: get_random(amount), amount >= 0, never raises, returns exactly     *)
(* min(amount, len) cards, each card value at most as often as the deck    *)
(* holds it, and leaves the deck unchanged whatever is picked.             *)
(***************************************************************************)
C10_GetRandomSamples ==
    call.op = "get_random" =>
        /\ call.err = "none"
        /\ cards = call.old
        /\ Len(RetCards(call.ret)) =
              (IF call.amount < Len(call.old) THEN call.amount ELSE Len(call.old))
        /\ \A j \in 1..Len(RetCards(call.ret)) :
              Count(RetCards(call.ret), RetCards(call.ret)[j])
                 <= Count(call.old, RetCards(call.ret)[j])

\* more cards asked for than a deck with a repeated card holds
C10_Witness ==
    /\ call.op = "get_random"
    /\ call.err = "none"
    /\ Len(call.old) = 3
    /\ call.amount > Len(call.old)
    /\ Len(RetCards(call.ret)) = 3
    /\ Count(call.old, Card(1, 1)) = 2
    /\ cards = call.old

(***************************************************************************)
(* C11: get with k >= 1 flattened elements, all of them ints in            *)
(* [-len, len), returns the card at the resolved position when k = 1 and   *)
(* otherwise a Deck whose j-th card is the receiver's card at the j-th     *)
(* resolved index, in the order asked for, a repeated index giving a       *)
(* repeated card; get() on a deck that holds a card returns its last card. *)
(***************************************************************************)
\* the position (0-based) an int element names in a deck of length n
Resolved(e, n) == IF e.n < 0 THEN n + e.n ELSE e.n

\* every element is an int naming a position of a deck of length n
AllValidIndexes(flat, n) ==
    \A j \in 1..Len(flat) : flat[j].k = "int" /\ -n <= flat[j].n /\ flat[j].n < n

GetFault(old, e) ==
    IF e.k = "int"
    THEN IF e.n < -Len(old) \/ e.n >= Len(old) THEN "IndexError" ELSE "none"
    ELSE "TypeError"

C12_GetErrors ==
    LET flat == ExpectedFlat(call.args)
    IN (call.op = "get" /\ Len(call.args) >= 1) =>
          /\ (\A j \in 1..Len(flat) : GetFault(call.old, flat[j]) = "none")
                => call.err = "none"
          /\ \A j \in 1..Len(flat) :
                (/\ GetFault(call.old, flat[j]) # "none"
                 /\ \A q \in 1..(j - 1) : GetFault(call.old, flat[q]) = "none")
                => call.err = GetFault(call.old, flat[j])

\* a bool inside a tuple, after a valid index: TypeError
C12_Witness ==
    /\ call.op = "get"
    /\ call.err = "TypeError"
    /\ Len(call.old) >= 1
    /\ call.args = <<EltArg(IntElt(0)), TupleArg(<<BoolElt>>)>>

(***************************************************************************)
(* C13: index returns, for each card given, the smallest position at which *)
(* the deck holds an equal card: an int when one card is given, otherwise  *)
(* a tuple in argument order; it raises ValueError for a card the deck     *)
(* does not hold and TypeError for an element that is not a card (the      *)
(* first faulty element decides), and returns nothing without arguments.   *)
(***************************************************************************)
\* the smallest position (0-based) of a card equal to c in seq
FirstPosition(seq, c) ==
    (CHOOSE p \in 1..Len(seq) :
        /\ CardEq(seq[p], c)
        /\ \A q \in 1..Len(seq) : CardEq(seq[q], c) => p <= q) - 1

C13_IndexResult ==
    LET flat == ExpectedFlat(call.args)
    IN call.op = "index" =>
          /\ cards = call.old
          /\ Len(call.args) = 0 => (call.err = "none" /\ call.ret = NoRet)
          /\ Len(call.args) >= 1 =>
                /\ call.err = FirstFault(call.old, flat)
                /\ (call.err = "none" /\ Len(flat) = 1) =>
                      call.ret = IntRet(FirstPosition(call.old, flat[1].card))
                /\ (call.err = "none" /\ Len(flat) # 1) =>
                      call.ret = TupleRet([j \in 1..Len(flat) |->
                                     FirstPosition(call.old, flat[j].card)])

\* two cards asked for, the first of them held twice and not at the front
C13_Witness ==
    /\ call.op = "index"
    /\ call.err = "none"
    /\ call.old = <<Joker(TRUE), Card(1, 1), Card(1, 1)>>
    /\ call.args = <<EltArg(CardElt(Card(1, 1))), EltArg(CardElt(Joker(TRUE)))>>
    /\ call.ret = TupleRet(<<1, 0>>)

(***************************************************************************)
(* C14: for a card c the deck holds exactly once, deck.get(deck.index(c))  *)
(* is a card equal to c.                                                   *)
(***************************************************************************)
C14_GetOfIndex ==
    LET c == ExpectedFlat(call.args)[1].card
    IN (call.op = "get_indexed" /\ Count(call.old, c) = 1) =>
          /\ call.err = "none"
          /\ call.ret.k = "card"
          /\ CardEq(call.ret.card, c)

\* the card is the last of three, after two equal other cards
C14_Witness ==
    /\ call.op = "get_indexed"
    /\ call.err = "none"
    /\ call.old = <<Joker(TRUE), Joker(TRUE), Card(1, 1)>>
    /\ call.index = IntIndex(2)
    /\ call.ret = CardRet(Card(1, 1))

(***************************************************************************)
(* Reference definitions for select: what a criterion value asks for.      *)
(***************************************************************************)
\* the value excludes: a negative int or a str starting with "!"
IsExclusion(v) == (v.k = "int" /\ v.n < 0) \/ (v.k = "str" /\ v.bangs > 0)

\* the value is an int or a str that names a rank (a suit), excluded or not
NamesOne(family, v) ==
    LET names == IF family = "rank" THEN RankNames ELSE SuitNames
        top == IF family = "rank" THEN 13 ELSE 4
    IN \/ v.k = "int" /\ v.n # 0 /\ -top <= v.n /\ v.n <= top
       \/ v.k = "str" /\ v.bangs <= 1 /\ v.name \in DOMAIN names

\* the rank (suit) number a value that names one stands for
NumberOf(family, v) ==
    IF v.k = "int" THEN (IF v.n < 0 THEN -v.n ELSE v.n)
    ELSE IF family = "rank" THEN RankNames[v.name] ELSE SuitNames[v.name]

\* the card has the rank (suit) the value names
Matches(family, c, v) ==
    (IF family = "rank" THEN c.rank ELSE c.suit) = NumberOf(family, v)

\* the cards of seq that match none of the exclusion values among items
WorkingSet(family, seq, items) ==
    SelectSeq(seq, LAMBDA c :
        \A j \in 1..Len(items) :
            IsExclusion(items[j]) => ~Matches(family, c, items[j]))

\* for each inclusion value among items, in order, the cards of W matching it
RECURSIVE ConcatMatches(_, _, _)
ConcatMatches(family, W, items) ==
    IF items = <<>> THEN <<>>
    ELSE (IF IsExclusion(Head(items)) THEN <<>>
          ELSE SelectSeq(W, LAMBDA c : Matches(family, c, Head(items))))
         \o ConcatMatches(family, W, Tail(items))

\* the call gave only criterion crit, of the family, and nothing else
OnlyCriterion(family, crit) ==
    /\ call.op = "select"
    /\ crit = (IF family = "rank" THEN call.args.rank ELSE call.args.suit)
    /\ (IF family = "rank" THEN call.args.suit ELSE call.args.rank) = NoCriterion
    /\ call.args.color = NoneVal
    /\ call.args.face_card = NoneVal

(***************************************************************************)
(* C15: on the standard 54-card deck, select with only an exclusion for a  *)
(* scalar rank (rank=-2, rank="!King") returns the cards of the deck that  *)
(* do not have that rank, len - count(rank) of them.                       *)
(***************************************************************************)
C15_ExclusionOnly ==
    \A v \in {IntVal(-2), StrVal(1, "King")} :
        (OnlyCriterion("rank", ScalarCriterion(v))
         /\ call.old = generate_standard_deck) =>
            /\ call.err = "none"
            /\ Len(call.ret.cards) =
                  Len(call.old)
                  - Cardinality({i \in 1..Len(call.old) :
                                    Matches("rank", call.old[i], v)})
            /\ call.ret.cards =
                  SelectSeq(call.old, LAMBDA c : ~Matches("rank", c, v))

(***************************************************************************)
(* C16: select with rank (or suit) values that each name a rank (a suit),  *)
(* at least one of them an inclusion, returns for each inclusion value in  *)
(* the order given the cards of the working set (the receiver without the  *)
(* cards matching an exclusion value) that match it, in deck order, with   *)
(* nothing deduplicated; select(rank=2) on the standard deck returns the   *)
(* four cards of rank 2, one per suit, none a face card.                   *)
(***************************************************************************)
C16_InclusionConcat ==
    /\ \A family \in {"rank", "suit"} :
          LET crit == IF call.op = "select"
                      THEN (IF family = "rank" THEN call.args.rank
                            ELSE call.args.suit)
                      ELSE NoCriterion
          IN (/\ OnlyCriterion(family, crit)
              /\ \A j \in 1..Len(crit.items) : NamesOne(family, crit.items[j])
              /\ \E j \in 1..Len(crit.items) : ~IsExclusion(crit.items[j]))
             => /\ call.err = "none"
                /\ call.ret =
                      DeckRet(ConcatMatches(family,
                                 WorkingSet(family, call.old, crit.items),
                                 crit.items))
    /\ (OnlyCriterion("rank", ScalarCriterion(IntVal(2)))
        /\ call.old = generate_standard_deck)
       => /\ Len(call.ret.cards) = 4
          /\ \A j \in 1..4 :
                /\ call.ret.cards[j].rank = 2
                /\ ~call.ret.cards[j].face_card
          /\ {call.ret.cards[j].suit : j \in 1..4} = 1..4

\* the same rank given twice on the standard deck: its four cards, twice
C16_Witness ==
    /\ OnlyCriterion("rank", ListCriterion(<<IntVal(2), IntVal(2)>>))
    /\ call.old = generate_standard_deck
    /\ call.err = "none"
    /\ Len(call.ret.cards) = 8
    /\ SubSeq(call.ret.cards, 1, 4) = SubSeq(call.ret.cards, 5, 8)

(***************************************************************************)
(* C17: a select that returns gives what the suit stage gives on the       *)
(* result of the rank stage, kept to the cards with the color and the      *)
(* face-card flag asked for (when asked), in order; select() with no       *)
(* criterion returns a deck equal to the receiver.                         *)
(***************************************************************************)
C17_StagesThenFilters ==
    (call.op = "select" /\ call.err = "none") =>
        LET a == call.args
            by_rank == select(call.old, a.rank, NoCriterion, NoneVal, NoneVal)
            by_suit == select(by_rank.ret.cards, NoCriterion, a.suit,
                              NoneVal, NoneVal)
            wanted == IF a.color.k = "str" THEN a.color.name = "Red"
                      ELSE a.color.n = 1
        IN /\ by_rank.err = "none"
           /\ by_suit.err = "none"
           /\ call.ret =
                 DeckRet(SelectSeq(by_suit.ret.cards, LAMBDA c :
                            /\ a.color.k # "none" => c.color = wanted
                            /\ a.face_card.k # "none"
                                  => c.face_card = (a.face_card.n = 1)))
           /\ (/\ a.rank = NoCriterion /\ a.suit = NoCriterion
               /\ a.color = NoneVal /\ a.face_card = NoneVal)
              => call.ret = DeckRet(call.old)

\* all four criteria on the standard deck: the 2 of Hearts is what is left
C17_Witness ==
    /\ call.op = "select"
    /\ call.err = "none"
    /\ call.old = generate_standard_deck
    /\ call.args = [rank |-> ScalarCriterion(IntVal(2)),
                    suit |-> ScalarCriterion(StrVal(0, "Hearts")),
                    color |-> BoolVal(TRUE), face_card |-> BoolVal(FALSE)]
    /\ call.ret = DeckRet(<<Card(2, 4)>>)

(***************************************************************************)
(* C18: select raises TypeError when a rank or suit value is neither an    *)
(* int nor a str (a float, a bool), given alone or in a list or tuple, and *)
(* ValueError when an int or str names no rank or suit; ValueError for a   *)
(* color str other than "Red" / "Black", TypeError for a color that is     *)
(* neither bool nor str, TypeError for a face_card that is not a bool.     *)
(* Each case is taken with no other criterion given.                       *)
(***************************************************************************)
C18_SelectErrors ==
    /\ \A family \in {"rank", "suit"} :
          LET crit == IF call.op = "select"
                      THEN (IF family = "rank" THEN call.args.rank
                            ELSE call.args.suit)
                      ELSE NoCriterion
              bad_type == {j \in 1..Len(crit.items) :
                              crit.items[j].k \notin {"int", "str"}}
              no_name == {j \in 1..Len(crit.items) :
                             /\ crit.items[j].k \in {"int", "str"}
                             /\ ~NamesOne(family, crit.items[j])}
          IN OnlyCriterion(family, crit) =>
                /\ (bad_type # {} /\ no_name = {}) => call.err = "TypeError"
                /\ (no_name # {} /\ bad_type = {}) => call.err = "ValueError"
    /\ (/\ call.op = "select"
        /\ call.args.rank = NoCriterion /\ call.args.suit = NoCriterion) =>
          LET color == call.args.color
              face_card == call.args.face_card
          IN /\ (color.k = "str" /\ color.name \notin {"Red", "Black"}
                 /\ face_card.k \in {"none", "bool"}) => call.err = "ValueError"
             /\ color.k \notin {"none", "bool", "str"} => call.err = "TypeError"
             /\ (face_card.k \notin {"none", "bool"}
                 /\ (color.k = "str" => color.name \in {"Red", "Black"}))
                   => call.err = "TypeError"

(***************************************************************************)
(* Reference definitions for the sorts.                                    *)
(***************************************************************************)
\* the rank a card counts for in a sort: Joker 0, Ace 1 or 14, else its rank
EffectiveRank(c) ==
    IF c.cls = "Joker" THEN 0
    ELSE IF c.rank = 1 THEN (IF ace_worth_1 THEN 1 ELSE 14)
    ELSE c.rank

\* after holds the cards of before, and the cards of any one key (major and
\* minor) stand in after in the order they have in before
IsStableReordering(before, after, major(_), minor(_)) ==
    /\ Len(after) = Len(before)
    /\ \A i \in 1..Len(before) :
          LET SameKey(c) == /\ major(c) = major(before[i])
                            /\ minor(c) = minor(before[i])
          IN SelectSeq(after, SameKey) = SelectSeq(before, SameKey)

\* seq is ascending by major, and by minor where major is equal
IsAscending(seq, major(_), minor(_)) ==
    \A i \in 1..(Len(seq) - 1) :
        \/ major(seq[i]) < major(seq[i + 1])
        \/ /\ major(seq[i]) = major(seq[i + 1])
           /\ minor(seq[i]) <= minor(seq[i + 1])

SuitOf(c) == c.suit

(***************************************************************************)
(* C19: sort_by_rank leaves a permutation of the previous cards, ascending *)
(* by (effective rank, suit) with the Ace at the value set when it is      *)
(* called (14, or 1 when aces are worth 1) and a Joker at 0, cards with    *)
(* equal keys in their previous order; [Card(1,1), Joker(Red), Card(10,2), *)
(* Card(Queen,1)] becomes Joker, 10, Queen, Ace by default and Joker, Ace, *)
(* 10, Queen with aces worth 1.                                            *)
(***************************************************************************)
C19_SortByRank ==
    call.op = "sort_by_rank" =>
        /\ call.err = "none"
        /\ IsStableReordering(call.old, cards, EffectiveRank, SuitOf)
        /\ IsAscending(cards, EffectiveRank, SuitOf)
        /\ call.old = <<Card(1, 1), Joker(TRUE), Card(10, 2), Card(12, 1)>> =>
              cards = IF ace_worth_1
                      THEN <<Joker(TRUE), Card(1, 1), Card(10, 2), Card(12, 1)>>
                      ELSE <<Joker(TRUE), Card(10, 2), Card(12, 1), Card(1, 1)>>

\* the deck of the scenario sorted with aces worth 1
C19_Witness ==
    /\ call.op = "sort_by_rank"
    /\ ace_worth_1
    /\ call.old = <<Card(1, 1), Joker(TRUE), Card(10, 2), Card(12, 1)>>
    /\ cards = <<Joker(TRUE), Card(1, 1), Card(10, 2), Card(12, 1)>>

(***************************************************************************)
(* C20: sort_by_suit leaves a permutation of the previous cards, ascending *)
(* by (suit, effective rank), Jokers first, cards with equal keys in their *)
(* previous order; the Ace stands at the end of its suit group by default  *)
(* and at its start when aces are worth 1, so sorting again after the      *)
(* setting is switched moves it to the other end.                          *)
(***************************************************************************)
C20_SortBySuit ==
    call.op = "sort_by_suit" =>
        /\ call.err = "none"
        /\ IsStableReordering(call.old, cards, SuitOf, EffectiveRank)
        /\ IsAscending(cards, SuitOf, EffectiveRank)
        /\ \A i, j \in 1..Len(cards) :
              (/\ cards[i].suit = 0
               /\ cards[j].suit # 0) => i < j
        /\ \A i, j \in 1..Len(cards) :
              (/\ cards[i].suit = cards[j].suit
               /\ cards[i].rank = 1
               /\ cards[j].rank > 1) => (IF ace_worth_1 THEN i < j ELSE j < i)

\* a deck sorted by suit with the Ace high is sorted again with aces worth
\* 1: the Ace of Clubs goes from behind the Queen of Clubs to before it, and
\* the two Jokers stay as they were
C20_Witness ==
    /\ call.op = "sort_by_suit"
    /\ ace_worth_1
    /\ call.old = <<Joker(TRUE), Joker(FALSE), Card(12, 1), Card(1, 1)>>
    /\ cards = <<Joker(TRUE), Joker(FALSE), Card(1, 1), Card(12, 1)>>

(***************************************************************************)
(* C21: Deck() holds 54 cards: each of the 13 x 4 (rank, suit) pairs once, *)
(* one black and one red Joker; a second Deck() built afterwards in the    *)
(* same process is equal to it card by card.                               *)
(***************************************************************************)
C21_StandardDeck ==
    (call.op = "Deck" /\ call.args = <<>>) =>
        /\ call.err = "none"
        /\ Len(cards) = 54
        /\ \A r \in 1..13, s \in 1..4 : Count(cards, Card(r, s)) = 1
        /\ Count(cards, Joker(FALSE)) = 1
        /\ Count(cards, Joker(TRUE)) = 1
        /\ \A i \in 1..Len(cards) : cards[i].cls = "Joker" <=> cards[i].rank = 0
        /\ other_deck.held =>
              /\ ListEq(cards, other_deck.cards)
              /\ cards = other_deck.cards

\* the process enumerates Hearts first and the ranks from the 2: both decks
\* start with the 2 of Hearts and end with the black and the red Joker
C21_Witness ==
    /\ call.op = "Deck"
    /\ call.args = <<>>
    /\ other_deck.held
    /\ name_order.suits[1] = "Hearts"
    /\ name_order.ranks[1] = "2"
    /\ cards[1] = Card(2, 4)
    /\ other_deck.cards[1] = Card(2, 4)
    /\ cards[53] = Joker(FALSE)
    /\ cards[54] = Joker(TRUE)

(***************************************************************************)
(* Reference definitions for the cards.                                    *)
(***************************************************************************)
\* the two cards agree on rank, suit, color and face-card flag
SameAttributes(a, b) ==
    \A f \in {"rank", "suit", "color", "face_card"} : a[f] = b[f]

\* the attributes are those a constructor gives
AsConstructed(c) ==
    \/ /\ c.cls = "Card"
       /\ c.rank \in 1..13
       /\ c.suit \in 1..4
       /\ c.color = (c.suit > 2)
       /\ c.face_card = (c.rank > 10)
    \/ /\ c.cls = "Joker"
       /\ c.rank = 0
       /\ c.suit = 0
       /\ c.face_card

\* the call compared a card with a card
ComparedCards(ops) ==
    /\ call.op \in ops
    /\ call.args[2].k = "card"

C25_CardOrdering ==
    ComparedCards({"lt", "le", "gt", "ge"}) =>
        LET a == call.args[1].card
            b == call.args[2].card
            ea == EffectiveRank(a)
            eb == EffectiveRank(b)
        IN /\ call.err = "none"
           /\ call.ret.k = "bool"
           /\ call.ret.b = (CASE call.op = "lt" -> ea < eb
                              [] call.op = "le" -> ea <= eb
                              [] call.op = "gt" -> ea > eb
                              [] call.op = "ge" -> ea >= eb)
           /\ ea = eb =>
                 /\ ~Card_lt(a, CardElt(b), ace_worth_1).ret.b
                 /\ ~Card_gt(a, CardElt(b), ace_worth_1).ret.b
           /\ Card_le(a, CardElt(b), ace_worth_1).ret.b
                 = ~Card_gt(a, CardElt(b), ace_worth_1).ret.b
           /\ Card_ge(a, CardElt(b), ace_worth_1).ret.b
                 = ~Card_lt(a, CardElt(b), ace_worth_1).ret.b

\* with aces worth 1, the Ace of Clubs is < the King of Diamonds
C25_Witness ==
    /\ call.op = "lt"
    /\ ace_worth_1
    /\ call.args = <<CardElt(Card(1, 1)), CardElt(Card(13, 3))>>
    /\ call.ret.b

(***************************************************************************)
(* C26: a comparison of a card with a value that is not a card raises a    *)
(* TypeError.                                                              *)
(***************************************************************************)
C26_NonCardTypeError ==
    (/\ call.op \in {"lt", "le", "gt", "ge", "eq", "ne"}
     /\ call.args[2].k # "card") => call.err = "TypeError"

(***************************************************************************)
(* C27: a Card built from a valid rank and suit, number or name, has that  *)
(* rank and suit, color = (suit > 2) and face_card = (rank > 10); a Joker  *)
(* has rank 0, suit 0, face_card true and the color given; every card of   *)
(* the deck and of what a call hands back has the attributes of a          *)
(* constructor.                                                            *)
(***************************************************************************)
C27_CardAttributes ==
    /\ (call.op = "Card" /\ call.err = "none") =>
          LET rank == call.args[1]
              suit == call.args[2]
              r == IF rank.k = "str" THEN RankNames[rank.name] ELSE rank.n
              u == IF suit.k = "str" THEN SuitNames[suit.name] ELSE suit.n
              c == call.ret.card
          IN /\ c.cls = "Card"
             /\ c.rank = r
             /\ c.suit = u
             /\ c.color = (u > 2)
             /\ c.face_card = (r > 10)
             /\ cards = Append(call.old, c)
    /\ (call.op = "Joker" /\ call.err = "none") =>
          LET color == call.args[1]
              c == call.ret.card
          IN /\ c.cls = "Joker"
             /\ c.rank = 0
             /\ c.suit = 0
             /\ c.face_card
             /\ c.color = (IF color.k = "str" THEN color.name = "Red"
                           ELSE color.n = 1)
             /\ cards = Append(call.old, c)
    /\ \A i \in 1..Len(cards) : AsConstructed(cards[i])
    /\ \A i \in 1..Len(RetCards(call.ret)) : AsConstructed(RetCards(call.ret)[i])

\* Card("Jack", 3) is the red face card of rank 11 and suit 3, added behind
\* the black Joker
C27_Witness ==
    /\ call.op = "Card"
    /\ call.args = <<StrVal(0, "Jack"), IntVal(3)>>
    /\ call.ret.card = [cls |-> "Card", rank |-> 11, suit |-> 3,
                        color |-> TRUE, face_card |-> TRUE]
    /\ cards = <<Joker(FALSE), call.ret.card>>

(***************************************************************************)
(* C28: remove given a valid index and a card the deck holds succeeds.     *)
(* The card at the index goes; then the first card equal to the card       *)
(* argument goes if one is left, and nothing else when none is left.  So   *)
(* remove(0, Card(1,1)) on [Card(1,1), Card(2,1)] leaves [Card(2,1)].      *)
(***************************************************************************)
C28_IndexAndCard ==
    LET flat == ExpectedFlat(call.args)
        n == Len(call.old)
    IN (/\ call.op = "remove"
        /\ Len(flat) = 2
        /\ \E k \in 1..2 :
              /\ flat[k].k = "int"
              /\ flat[3 - k].k = "card"
              /\ flat[k].n \in (-n)..(n - 1)
              /\ \E j \in 1..n : SameAttributes(call.old[j], flat[3 - k].card)) =>
           LET k == CHOOSE k \in 1..2 : flat[k].k = "int"
               c == flat[3 - k].card
               p == (IF flat[k].n < 0 THEN n + flat[k].n ELSE flat[k].n) + 1
               rest == [j \in 1..(n - 1) |->
                           IF j < p THEN call.old[j] ELSE call.old[j + 1]]
               left == {j \in 1..(n - 1) : SameAttributes(rest[j], c)}
           IN /\ call.err = "none"
              /\ left = {} => cards = rest
              /\ left # {} =>
                    LET q == CHOOSE q \in left : \A j \in left : q <= j
                    IN cards = [j \in 1..(n - 2) |->
                                   IF j < q THEN rest[j] ELSE rest[j + 1]]
              /\ (SameAttributes(call.old[p], c) /\ Count(call.old, c) = 1) =>
                    /\ Len(cards) = n - 1
                    /\ Count(cards, c) = 0

\* remove(0, Card(1,1)) on [Card(1,1), Card(2,1)] leaves [Card(2,1)]
C28_Witness ==
    /\ call.op = "remove"
    /\ call.err = "none"
    /\ call.args = <<EltArg(IntElt(0)), EltArg(CardElt(Card(1, 1)))>>
    /\ call.old = <<Card(1, 1), Card(2, 1)>>
    /\ cards = <<Card(2, 1)>>

(***************************************************************************)
(* Reference definitions for two decks.                                    *)
(***************************************************************************)
\* the same length, and cards with the same attributes position by position
SameCards(a, b) ==
    /\ Len(a) = Len(b)
    /\ \A i \in 1..Len(a) : SameAttributes(a[i], b[i])

\* no card object is in both lists
NoSharedCard(a, b) ==
    \A i \in 1..Len(a), j \in 1..Len(b) : a[i].id # b[j].id

\* every card of sub has the attributes of a card of one of the lists
CardsFrom(sub, a, b) ==
    \A i \in 1..Len(sub) :
        \/ \E j \in 1..Len(a) : SameAttributes(sub[i], a[j])
        \/ \E j \in 1..Len(b) : SameAttributes(sub[i], b[j])

\* the caller acted on the deck named by side after the call named in ops
After(side, ops) ==
    /\ call.op = side
    /\ call.args.after \in ops

(***************************************************************************)
(* C22: deck == other is true iff other is a Deck holding equal cards in   *)
(* the same order, and hash(deck) returns a number for every deck.         *)
(***************************************************************************)
C22_DeckEqAndHash ==
    /\ call.op = "deck_eq" =>
          (call.ret.b <=> (/\ call.args[1].k = "deck"
                           /\ SameCards(cards, CardsOf(call.args[1].items))))
    /\ call.op = "deck_ne" =>
          (call.ret.b <=> ~(/\ call.args[1].k = "deck"
                            /\ SameCards(cards, CardsOf(call.args[1].items))))
    /\ call.op = "hash" =>
          /\ call.err = "none"
          /\ call.ret.k = "int"

(***************************************************************************)
(* C23: deck.copy() returns a Deck with the same cards in the same order,  *)
(* each of the class of the original, in a list of its own and with no     *)
(* card object of the original; whatever add, remove, draw, sort or        *)
(* attribute overwrite follows on the copy leaves the original as it was,  *)
(* and whatever follows on the original leaves the copy as it was.         *)
(***************************************************************************)
C23_CopyIndependent ==
    /\ call.op = "copy" =>
          /\ call.err = "none"
          /\ cards = call.old
          /\ call.ret.k = "deck"
          /\ other_deck.cards = call.ret.cards
          /\ SameCards(other_deck.cards, cards)
          /\ \A i \in 1..Len(cards) : other_deck.cards[i].cls = cards[i].cls
          /\ NoSharedCard(other_deck.cards, cards)
          /\ ~other_deck.same_list
    /\ After("on_other", {"copy"}) => cards = call.old
    /\ After("on_receiver", {"copy"}) => other_deck.cards = call.args.other_old

\* the color of the copy's Joker is set to black: the original keeps its
\* red Joker
C23_Witness ==
    /\ After("on_other", {"copy"})
    /\ call.args.do = "color"
    /\ ~call.args.v
    /\ Len(cards) = 2
    /\ cards[2].cls = "Joker"
    /\ cards[2].color
    /\ other_deck.cards[2].cls = "Joker"
    /\ ~other_deck.cards[2].color
    /\ cards = call.old

(***************************************************************************)
(* C29: select, get, index and get_random leave the receiver's list as it  *)
(* was, whether they return or raise; the Deck they return holds a list of *)
(* its own, so an add, remove, draw or sort on it afterwards leaves the    *)
(* receiver as it was.                                                     *)
(***************************************************************************)
C29_ReadOnlyCalls ==
    /\ call.op \in {"select", "get", "index", "get_random"} =>
          /\ cards = call.old
          /\ (call.err = "none" /\ call.ret.k = "deck") =>
                /\ other_deck.held
                /\ ~other_deck.same_list
    /\ (/\ After("on_other", {"select", "get", "get_random"})
        /\ call.args.do \in ListMutations) => cards = call.old

\* a card is added to the Deck that select() with no criterion returned:
\* it has three cards, the receiver its two
C29_Witness ==
    /\ After("on_other", {"select"})
    /\ call.args.do = "add"
    /\ Len(other_deck.cards) = 3
    /\ Len(cards) = 2
    /\ SameCards(call.args.other_old, cards)
    /\ cards = call.old

(***************************************************************************)
(* C30: a Deck returned by get, get_random, draw, draw_random, select,     *)
(* copy, + or * holds only cards of the receiver (or of the other operand  *)
(* of +), no more of them than the operation can give, and none at all     *)
(* when there is nothing to return: never the standard deck.               *)
(***************************************************************************)
C30_NoStandardDeckForEmpty ==
    (/\ call.op \in {"get", "get_random", "draw", "draw_random", "select",
                     "copy", "add_decks", "mul"}
     /\ call.err = "none"
     /\ call.ret.k = "deck") =>
        LET got == call.ret.cards
            n == Len(call.old)
            operand == IF call.op = "add_decks" THEN CardsOf(call.args[1].items)
                       ELSE <<>>
        IN /\ CardsFrom(got, call.old, operand)
           /\ call.op \in {"get", "draw"} =>
                 /\ \/ Len(got) = Len(ExpectedFlat(call.args))
                    \/ Len(got) = 1 /\ call.args = <<>>
                 /\ call.args = <<ListArg(<<>>)>> => Len(got) = 0
           /\ call.op \in {"get_random", "draw_random"} =>
                 /\ Len(got) <= n
                 /\ Len(got) <= call.amount
                 /\ (call.amount = 0 \/ n = 0) => Len(got) = 0
           /\ call.op \in {"select", "copy"} =>
                 /\ Len(got) <= n
                 /\ n = 0 => Len(got) = 0
           /\ call.op = "add_decks" => Len(got) = n + Len(operand)
           /\ call.op = "mul" => Len(got) = n * call.args[1].n

\* deck * 0 for a deck of two cards is a Deck of no cards
C30_Witness ==
    /\ call.op = "mul"
    /\ call.args = <<IntVal(0)>>
    /\ Len(call.old) = 2
    /\ call.err = "none"
    /\ call.ret = DeckRet(<<>>)
    /\ other_deck.held
    /\ other_deck.cards = <<>>

====
